---- MODULE Spec2Model ----
(***************************************************************************)
(* A model of the service worker of the Podologie Weimar website           *)
(* (src/sw.js): the install and activate steps, the fetch listener with    *)
(* its navigation branch, the cache-first and network-first strategies,    *)
(* and the eviction pass of the dynamic cache.                             *)
(*                                                                         *)
(* Every await of the source is a step boundary.  A promise that the       *)
(* source starts and does not await (cache.put, limitCacheSize) is a       *)
(* background task of the handler that started it: it completes in a step  *)
(* of its own, at any later time.                                          *)
(***************************************************************************)
EXTENDS Integers, Sequences, FiniteSets, TLC

(***************************************************************************)
(* Bounds of the model.                                                    *)
(***************************************************************************)
\* The capacity the model gives the dynamic cache.  The source sets 50
\* (sw.js line 27); limitCacheSize takes the capacity as its parameter and
\* the model runs it with a small one.
MaxDyn == 1
\* Distinct response bodies the network can serve for one URL.
MaxBody == 2
\* Length of the history of dynamic writes kept for strictly sequential runs:
\* enough to overflow the dynamic cache.
MaxLog == MaxDyn + 1
\* The most slides a carousel has.
MaxSlides == 3
\* The most interval timers of one carousel that are active at a time.
MaxTimers == 2
\* The most times the modal is opened.
MaxOpens == 2
\* The most navigation links, and the most tab contents, of a document.
MaxTabs == 3

(***************************************************************************)
(* Configuration constants of the worker.                                  *)
(***************************************************************************)
STATIC_CACHE == "podologie-weimar-v1.0.0-static"
DYNAMIC_CACHE == "podologie-weimar-v1.0.0-dynamic"
\* A cache left behind by an earlier deployment.
OLD_CACHE == "podologie-weimar-v0.9.0-static"
OLD_DYNAMIC_CACHE == "podologie-weimar-v0.9.0-dynamic"

\* The kind of a cache is the suffix of its name: `${CACHE_NAME}-static` or
\* `${CACHE_NAME}-dynamic`.
KindOf(n) == IF n \in {STATIC_CACHE, OLD_CACHE} THEN "static" ELSE "dynamic"

\* URLs are sequences of tokens, so that endsWith and includes are computed
\* on the text of the URL: "/images/about1.jpeg" is
\* <<"/", "images", "/", "about1", ".jpeg">>.
STATIC_ASSETS ==
    << <<"/">>,
       <<"/", "index", ".html">>,
       <<"/", "styles", ".css">>,
       <<"/", "script", ".js">>,
       <<"/", "images", "/", "about1", ".jpeg">>,
       <<"/", "images", "/", "about2", ".jpeg">>,
       <<"/", "images", "/", "about3", ".jpeg">>,
       <<"/", "images", "/", "about4", ".jpeg">>,
       <<"/", "images", "/", "about5", ".jpeg">> >>

MAX_DYNAMIC_CACHE_SIZE == MaxDyn

Range(s) == {s[i] : i \in 1..Len(s)}

ROOT == <<"/">>

\* location.origin, and the origin of a third-party request.
OWN_ORIGIN == "https://podologie-weimar.example"
OTHER_ORIGIN == "https://cdn.example"

\* The dynamic URLs requested in the model: one more than the capacity.
DynamicNames == <<"d1", "d2", "d3", "d4", "d5", "d6">>

DynamicPaths == {<<"/", "api", "/", DynamicNames[i]>> : i \in 1..(MaxDyn + 1)}

\* The paths requested in the model.
Paths ==
    {ROOT, <<"/", "styles", ".css">>, <<"/", "logo", ".png">>, <<"/", "about">>}
    \cup DynamicPaths

\* The URLs of the classification check: a directory, a file name and an
\* extension, each of which may be absent.
DispatchDirs ==
    {<<>>, <<"/", "images">>, <<"/", "api">>, <<"/", "api", "/", "images">>}
DispatchFiles == {<<>>, <<"index">>, <<"styles">>, <<"about1">>, <<"list">>}
DispatchExtensions ==
    {<<>>} \cup {<<e>> : e \in {".css", ".js", ".jpg", ".jpeg", ".png", ".gif",
                                ".webp", ".html", ".json"}}
DispatchPaths ==
    {d \o <<"/">> \o f \o e :
        d \in DispatchDirs, f \in DispatchFiles, e \in DispatchExtensions}

\* The handler invocations that can be in flight at the same time.  A slot
\* serves the next fetch event once its invocation and the tasks it started
\* are over.
Handlers == {"h1", "h2"}

\* The slot of a worker that is sent one fetch event at a time.
SequentialHandlers == {"h1"}
Bodies == 1..MaxBody

\* Statuses of a network response: 200, a success-range status other than
\* 200, and an error status.
Statuses == {200, 204, 404}

(***************************************************************************)
(* Responses and cache entries.                                            *)
(***************************************************************************)
NoResponse == [kind |-> "none", url |-> <<>>, status |-> 0, body |-> 0]

NetResponse(u, s, b) == [kind |-> "net", url |-> u, status |-> s, body |-> b]

\* new Response('...', { status: 503, statusText: 'Service Unavailable' })
Synthetic503 == [kind |-> "synthetic", url |-> <<>>, status |-> 503, body |-> 0]

\* What cache.addAll stores for a manifest URL.
Precached(u) == [kind |-> "precache", url |-> u, status |-> 200, body |-> 0]

\* What an earlier deployment stored for a URL.
OldPrecached(u) == [kind |-> "old", url |-> u, status |-> 200, body |-> 0]

Entry(k, r) == [key |-> k, resp |-> r]

(***************************************************************************)
(* Pure functions on URLs.                                                 *)
(***************************************************************************)
\* String.prototype.endsWith
EndsWith(s, t) ==
    /\ Len(t) <= Len(s)
    /\ SubSeq(s, Len(s) - Len(t) + 1, Len(s)) = t

\* String.prototype.includes
Includes(s, t) ==
    \E i \in 1..(Len(s) - Len(t) + 1) : SubSeq(s, i, i + Len(t) - 1) = t

\* request.url: the origin followed by the path.
FullUrl(origin, path) == <<origin>> \o path

StaticExtensions == {".css", ".js", ".jpg", ".jpeg", ".png", ".gif", ".webp"}

isStaticAsset(url) ==
    \/ \E i \in 1..Len(STATIC_ASSETS) : EndsWith(url, STATIC_ASSETS[i])
    \/ Includes(url, <<"/", "images", "/">>)
    \/ \E e \in StaticExtensions : EndsWith(url, <<e>>)

(***************************************************************************)
(* The cache store: the names of the caches in creation order, and the     *)
(* entries of each cache in insertion order.                               *)
(***************************************************************************)
CacheNames == {STATIC_CACHE, DYNAMIC_CACHE, OLD_CACHE, OLD_DYNAMIC_CACHE}

HasKey(entries, k) == \E i \in 1..Len(entries) : entries[i].key = k

Lookup(entries, k) ==
    (CHOOSE i \in 1..Len(entries) : entries[i].key = k)

\* cache.keys(): the keys in insertion order.
KeysOf(entries) == [i \in 1..Len(entries) |-> entries[i].key]

\* cache.put: an entry with the same key is replaced; the new entry is the
\* newest of the cache.
PutEntry(entries, k, r) ==
    SelectSeq(entries, LAMBDA e : e.key # k) \o <<Entry(k, r)>>

\* cache.delete
DeleteEntry(entries, k) == SelectSeq(entries, LAMBDA e : e.key # k)

\* cache.addAll of the manifest into an empty or existing cache.
RECURSIVE AddAll(_, _, _)
AddAll(entries, urls, i) ==
    IF i > Len(urls) THEN entries
    ELSE AddAll(PutEntry(entries, urls[i], Precached(urls[i])), urls, i + 1)

\* caches.match over a store (names, content): the caches are searched in
\* creation order and the first match is the answer; no match is undefined.
RECURSIVE MatchFrom(_, _, _, _)
MatchFrom(names, content, k, i) ==
    IF i > Len(names) THEN NoResponse
    ELSE IF HasKey(content[names[i]], k)
         THEN content[names[i]][Lookup(content[names[i]], k)].resp
         ELSE MatchFrom(names, content, k, i + 1)

CachesMatch(names, content, k) == MatchFrom(names, content, k, 1)

\* caches.open: the cache is created when it does not exist.
OpenCache(names, n) == IF n \in Range(names) THEN names ELSE Append(names, n)

(***************************************************************************)
(* State.                                                                  *)
(***************************************************************************)
VARIABLES
    worker,        \* lifecycle state of this worker
    install,       \* the install listener's promise chain
    activate,      \* the activate listener's promise chain
    cacheNames,    \* caches.keys(): the existing caches, in creation order
    content,       \* the entries of each cache, in insertion order
    handler,       \* the fetch-handler invocations and their background tasks
    writes,        \* history: the keys networkFirst wrote, oldest first
    tracked,       \* history: writes is complete, and no two invocations
                   \* overlapped so far
    lastWrite,     \* history: the key of the latest networkFirst write, when
                   \* no other invocation overlapped it since it began
    windows,       \* the window clients of the origin and the URL each shows
    notif,         \* the notification and the notificationclick listener
    env,           \* the page's surroundings: loaded, document.hidden, the
                   \* prefers-reduced-motion media query, the pointer
    app,           \* the fields of the PodologieApp object
    carousel,      \* the fields of each UnifiedCarousel, and its timers
    modal,         \* the impressum modal and document.body's overflow
    focus,         \* document.activeElement
    event,         \* history: the event handled last
    single,        \* the carousel fields of the single-carousel PodologieApp
    tabs           \* the navigation links and the tab contents

vars == <<worker, install, activate, cacheNames, content, handler, writes,
          tracked, lastWrite, windows, notif, env, app, carousel, modal,
          focus, event, single, tabs>>

\* The history variables.
hist == <<writes, tracked, lastWrite>>

\* The variables of the lifecycle and fetch listeners.
workerVars == <<worker, install, activate, cacheNames, content, handler,
                writes, tracked, lastWrite>>

\* The variables outside the lifecycle and fetch listeners.
others ==
    <<windows, notif, env, app, carousel, modal, focus, event, single, tabs>>

\* The variables of the push and notificationclick listeners.
notifVars == <<windows, notif>>

\* The variables of the page script.
pageVars == <<env, app, carousel, modal, focus, event, single, tabs>>

NoRequest == [path |-> <<>>, mode |-> "none", origin |-> ""]

NoPut == [cache |-> "", key |-> <<>>, resp |-> NoResponse]

NoEvict ==
    [pc |-> "idle", cache |-> "", size |-> 0, toDelete |-> {}, error |-> FALSE]

IdleHandler ==
    [pc        |-> "idle",
     req       |-> NoRequest,
     responded |-> FALSE,        \* event.respondWith was called
     netResp   |-> NoResponse,   \* networkResponse
     net       |-> "none",       \* outcome of fetch(request): none, ok, fail
     fetches   |-> 0,            \* network fetches issued
     lookups   |-> 0,            \* caches.match calls answered
     hit       |-> FALSE,        \* the first caches.match found an entry
     result    |-> NoResponse,   \* what the respondWith promise resolved to
     put       |-> NoPut,        \* the cache.put started and not awaited
     evict     |-> NoEvict,      \* the limitCacheSize started and not awaited
     during    |-> {}]           \* history: the invocations that were in
                                 \* flight when this one was dispatched

\* The carousel containers of the page.
Carousels == {"c1", "c2"}

\* this.autoSlideInterval = null
NoTimer == 0

\* A UnifiedCarousel that has not been constructed.
NoCarousel ==
    [n |-> 0, listening |-> FALSE, currentSlideIndex |-> 0,
     autoSlideInterval |-> NoTimer, isReducedMotion |-> FALSE, timers |-> {},
     dots |-> 0, active |-> {}, activeDots |-> {}]

\* NaN, which no comparison of the code finds below 0 or at least the
\* number of slides, as a number the index arithmetic never yields.
NaN == 0 - 1

\* The carousel fields of the single-carousel PodologieApp as its
\* constructor sets them.
NoSingle ==
    [n |-> 0, dots |-> 0, currentSlideIndex |-> 0, active |-> {},
     activeDots |-> {}, autoSlideInterval |-> NoTimer, timers |-> {}]

\* The navigation links, in document order.
NavLinks == <<"nav-1", "nav-2", "nav-3", "nav-4">>

\* The ids of the tab contents, in document order.
TabIds == <<"home", "services", "contact", "about">>

\* A document without navigation links: initTabNavigation returns early.
\* n is the number of links and hrefs their href attributes; contents are
\* the ids of the tab contents; controls says whether a tab content begins
\* with an element that takes focus; activeLinks, activeContents and
\* mainActive say which links, which tab contents and whether the element
\* with id main carry the active class.
NoTabs ==
    [n |-> 0, hrefs |-> <<>>, contents |-> {}, controls |-> FALSE,
     activeLinks |-> {}, activeContents |-> {}, mainActive |-> FALSE,
     switched |-> FALSE]

\* A link without href attribute: getAttribute('href') is null.
NoHref == <<>>

\* The modal before the script has touched it: hidden by the style sheet.
NoModal ==
    [active |-> FALSE, display |-> "", overflow |-> "", traps |-> 0,
     elements |-> <<>>]

\* The focusable elements a modal can hold, in document order: the close
\* button, which initModal requires, comes first.
ModalElements == <<"modal-close", "modal-anchor", "modal-button">>

\* The elements outside the modal that can have focus: the body, the
\* impressum link, and the controls inside each carousel container.
PageElements == {"body", "impressum-link"} \cup Carousels

NoEvent == [type |-> "none", target |-> "none"]

\* The window clients the origin can have, and the pages they show.
WindowIds == {"w1", "w2", "w3"}
WindowPaths == {ROOT, <<"/", "about">>}
NoWindow == <<>>

\* No notification is displayed and no click is being handled.
NoNotification ==
    [shown |-> FALSE, pc |-> "idle", closed |-> FALSE, focused |-> "none",
     opened |-> {}]

\* The requests the page issues in the model.
Requests ==
    {[path |-> p, mode |-> "navigate", origin |-> OWN_ORIGIN] :
        p \in {ROOT, <<"/", "about">>}}
    \cup {[path |-> p, mode |-> "no-cors", origin |-> OWN_ORIGIN] :
        p \in Paths \ {ROOT, <<"/", "about">>}}
    \cup {[path |-> <<"/", "lib", ".js">>, mode |-> "no-cors",
           origin |-> OTHER_ORIGIN]}

Init ==
    /\ worker = "installing"
    /\ install = [pc |-> "open", promise |-> "pending", addAll |-> "pending",
                  skipWaiting |-> FALSE]
    /\ activate = [pc |-> "idle", listed |-> {}, toDelete |-> {}, claimed |-> FALSE]
    /\ cacheNames \in {<<>>, <<OLD_CACHE>>, <<OLD_CACHE, OLD_DYNAMIC_CACHE>>}
    /\ content = [n \in CacheNames |->
                    IF n = OLD_CACHE /\ n \in Range(cacheNames)
                    THEN <<Entry(ROOT, OldPrecached(ROOT))>>
                    ELSE <<>>]
    /\ handler = [h \in Handlers |-> IdleHandler]
    /\ writes = <<>>
    /\ tracked = TRUE
    /\ lastWrite = <<>>
    /\ windows = [w \in WindowIds |-> NoWindow]
    /\ notif = NoNotification
    /\ env = [loaded |-> FALSE, hidden |-> FALSE, reduce |-> FALSE,
              pointer |-> "none"]
    /\ app = [isReducedMotion |-> FALSE, keydown |-> FALSE,
              previousFocus |-> "null"]
    /\ carousel = [c \in Carousels |-> NoCarousel]
    /\ modal = NoModal
    /\ focus = "body"
    /\ event = NoEvent
    /\ single = NoSingle
    /\ tabs = NoTabs

(***************************************************************************)
(* The install listener.                                                   *)
(***************************************************************************)
\* caches.open(STATIC_CACHE)
InstallOpen ==
    /\ worker = "installing"
    /\ install.pc = "open"
    /\ cacheNames' = OpenCache(cacheNames, STATIC_CACHE)
    /\ install' = [install EXCEPT !.pc = "addAll"]
    /\ UNCHANGED <<worker, activate, content, handler, hist, others>>

\* cache.addAll(STATIC_ASSETS): every URL is fetched, and the entries are
\* written only when every fetch gave an ok response; otherwise the promise
\* rejects and nothing is written.
InstallAddAll ==
    /\ worker = "installing"
    /\ install.pc = "addAll"
    /\ \E failed \in SUBSET Range(STATIC_ASSETS) :
          IF failed = {}
          THEN /\ content' = [content EXCEPT ![STATIC_CACHE] =
                                  AddAll(@, STATIC_ASSETS, 1)]
               /\ install' = [install EXCEPT !.pc = "skipWaiting", !.addAll = "ok"]
          ELSE /\ content' = content
               /\ install' = [install EXCEPT !.pc = "catch", !.addAll = "failed"]
    /\ UNCHANGED <<worker, activate, cacheNames, handler, hist, others>>

\* .then(() => self.skipWaiting())
InstallSkipWaiting ==
    /\ worker = "installing"
    /\ install.pc = "skipWaiting"
    /\ install' = [install EXCEPT !.pc = "done", !.skipWaiting = TRUE,
                                  !.promise = "resolved"]
    /\ UNCHANGED <<worker, activate, cacheNames, content, handler, hist, others>>

\* A catch handler that goes on to supersede the active worker.
InstallCatchSkippingWaiting ==
    /\ worker = "installing"
    /\ install.pc = "catch"
    /\ install' = [install EXCEPT !.pc = "done", !.skipWaiting = TRUE,
                                  !.promise = "resolved"]
    /\ UNCHANGED <<worker, activate, cacheNames, content, handler, hist, others>>

\* .catch((error) => { console.error(...) }): the handler returns nothing,
\* so the promise given to event.waitUntil resolves.
InstallCatch ==
    /\ worker = "installing"
    /\ install.pc = "catch"
    /\ install' = [install EXCEPT !.pc = "done", !.promise = "resolved"]
    /\ UNCHANGED <<worker, activate, cacheNames, content, handler, hist, others>>

\* The browser settles the install step: a rejected waitUntil promise makes
\* the worker redundant, a resolved one lets it go on to activation.
InstallSettled ==
    /\ worker = "installing"
    /\ install.promise # "pending"
    /\ worker' = IF install.promise = "rejected" THEN "redundant" ELSE "activating"
    /\ activate' = IF install.promise = "rejected" THEN activate
                   ELSE [activate EXCEPT !.pc = "keys"]
    /\ UNCHANGED <<install, cacheNames, content, handler, hist, others>>

(***************************************************************************)
(* The activate listener.                                                  *)
(***************************************************************************)
\* A test that takes the two current caches for the stale ones.
StaleCachesInverted(names) ==
    {n \in names : n = STATIC_CACHE \/ n = DYNAMIC_CACHE}

\* A test joined with || : every cache differs from one of the two names.
StaleCachesEitherDiffers(names) ==
    {n \in names : n # STATIC_CACHE \/ n # DYNAMIC_CACHE}

\* if (cacheName !== STATIC_CACHE && cacheName !== DYNAMIC_CACHE)
StaleCaches(names) ==
    {n \in names : n # STATIC_CACHE /\ n # DYNAMIC_CACHE}

\* caches.keys().then(cacheNames => Promise.all(cacheNames.map(...))):
\* listed is the cacheNames array of the callback, toDelete the deletions
\* that were started and have not resolved.
ActivateKeys ==
    /\ worker = "activating"
    /\ activate.pc = "keys"
    /\ activate' = [activate EXCEPT
                      !.pc = "delete",
                      !.listed = Range(cacheNames),
                      !.toDelete = StaleCaches(Range(cacheNames))]
    /\ UNCHANGED <<worker, install, cacheNames, content, handler, hist, others>>

\* caches.delete(cacheName), one of the deletions of the Promise.all
ActivateDelete ==
    /\ worker \in {"activating", "activated"}
    /\ activate.pc \in {"delete", "rejected"}
    /\ \E n \in activate.toDelete :
          /\ cacheNames' = SelectSeq(cacheNames, LAMBDA m : m # n)
          /\ content' = [content EXCEPT ![n] = <<>>]
          /\ activate' = [activate EXCEPT !.toDelete = @ \ {n}]
    /\ UNCHANGED <<worker, install, handler, hist, others>>

\* One caches.delete(cacheName) rejects: the Promise.all rejects with it,
\* the .then of clients.claim is skipped and the promise given to
\* event.waitUntil rejects.  The cache stays; the deletions that were
\* started beside it go on.
ActivateDeleteFail ==
    /\ worker = "activating"
    /\ activate.pc = "delete"
    /\ \E n \in activate.toDelete :
          activate' = [activate EXCEPT !.pc = "rejected", !.toDelete = @ \ {n}]
    /\ UNCHANGED <<worker, install, cacheNames, content, handler, hist, others>>

\* A chain that claims the clients beside the deletions, not after them.
ActivateClaimEarly ==
    /\ worker = "activating"
    /\ activate.pc = "delete"
    /\ activate' = [activate EXCEPT !.pc = "done", !.claimed = TRUE]
    /\ UNCHANGED <<worker, install, cacheNames, content, handler, hist, others>>

\* .then(() => self.clients.claim()), once every deletion has resolved
ActivateClaim ==
    /\ worker = "activating"
    /\ activate.pc = "delete"
    /\ activate.toDelete = {}
    /\ activate' = [activate EXCEPT !.pc = "done", !.claimed = TRUE]
    /\ UNCHANGED <<worker, install, cacheNames, content, handler, hist, others>>

\* The browser settles the activate step: the promise given to
\* event.waitUntil has resolved, the worker is activated and fetch events
\* are dispatched to it; a rejected promise does not keep the worker from
\* becoming active.  The promise chain and its cacheNames array are gone.
ActivateSettled ==
    /\ worker = "activating"
    /\ activate.pc \in {"done", "rejected"}
    /\ worker' = "activated"
    /\ activate' = [activate EXCEPT !.listed = {}]
    /\ UNCHANGED <<install, cacheNames, content, handler, hist, others>>

(***************************************************************************)
(* The fetch listener.                                                     *)
(***************************************************************************)
Set(h, rec) == handler' = [handler EXCEPT ![h] = rec]

\* No code of handler g is running or pending: neither the handler body nor
\* a cache.put or limitCacheSize it started.
Quiet(g) ==
    /\ handler[g].pc \in {"idle", "done"}
    /\ handler[g].put = NoPut
    /\ handler[g].evict = NoEvict

\* A navigation branch that looks up the requested URL.
NavLookupKeyOfRequest(req) == req.path

\* The key the navigation branch looks up: caches.match('/').
NavLookupKey(req) == ROOT

\* A listener without the origin test of its first statement.
DispatchWithoutOriginCheck(req) ==
    IF req.mode = "navigate" THEN "nav_match"
    ELSE IF isStaticAsset(FullUrl(req.origin, req.path)) THEN "cf_match"
    ELSE "nf_fetch"

\* The branch the listener takes for a request.
Dispatch(req) ==
    IF req.origin # OWN_ORIGIN THEN "passthrough"
    ELSE IF req.mode = "navigate" THEN "nav_match"
    ELSE IF isStaticAsset(FullUrl(req.origin, req.path)) THEN "cf_match"
    ELSE "nf_fetch"

\* self.addEventListener('fetch', ...): the synchronous part of the listener.
\* networkFirst issues its fetch at once; the other branches begin with a
\* cache lookup.
FetchOf(h, reqs) ==
    /\ worker = "activated"
    /\ handler[h].pc = "idle"
    /\ \E req \in reqs :
          LET d == Dispatch(req) IN
          Set(h, [IdleHandler EXCEPT
                    !.req = req,
                    !.pc = IF d = "passthrough" THEN "done" ELSE d,
                    !.responded = (d # "passthrough"),
                    !.fetches = IF d = "nf_fetch" THEN 1 ELSE 0,
                    !.during = {g \in Handlers \ {h} : ~Quiet(g)}])
    /\ tracked' = (tracked /\ \A g \in Handlers \ {h} : Quiet(g))
    /\ writes' = IF tracked' THEN writes ELSE <<>>
    /\ lastWrite' = IF \A g \in Handlers \ {h} : Quiet(g) THEN lastWrite ELSE <<>>
    /\ UNCHANGED <<worker, install, activate, cacheNames, content, others>>

Fetch(h) == FetchOf(h, Requests)

\* caches.match('/').then((response) => response || fetch(request))
NavMatch(h) ==
    /\ handler[h].pc = "nav_match"
    /\ LET r == CachesMatch(cacheNames, content, NavLookupKey(handler[h].req)) IN
       IF r # NoResponse
       THEN Set(h, [handler[h] EXCEPT !.pc = "done", !.lookups = @ + 1,
                                      !.hit = TRUE, !.result = r])
       ELSE Set(h, [handler[h] EXCEPT !.pc = "nav_fetch", !.lookups = @ + 1,
                                      !.fetches = @ + 1])
    /\ UNCHANGED <<worker, install, activate, cacheNames, content, hist, others>>

\* fetch(request) of the navigation branch settles: a response of any status
\* is the result; a rejection goes to the .catch.
NavFetch(h) ==
    /\ handler[h].pc = "nav_fetch"
    /\ \/ \E s \in Statuses, b \in Bodies :
             LET r == NetResponse(handler[h].req.path, s, b) IN
             Set(h, [handler[h] EXCEPT !.pc = "done", !.net = "ok",
                                       !.netResp = r, !.result = r])
       \/ Set(h, [handler[h] EXCEPT !.pc = "nav_catch", !.net = "fail"])
    /\ UNCHANGED <<worker, install, activate, cacheNames, content, hist, others>>

\* .catch(() => caches.match('/')): the result is the lookup's answer, an
\* entry or undefined.
NavCatch(h) ==
    /\ handler[h].pc = "nav_catch"
    /\ Set(h, [handler[h] EXCEPT
                 !.pc = "done", !.lookups = @ + 1,
                 !.result = CachesMatch(cacheNames, content,
                                        NavLookupKey(handler[h].req))])
    /\ UNCHANGED <<worker, install, activate, cacheNames, content, hist, others>>

(***************************************************************************)
(* cacheFirst                                                              *)
(***************************************************************************)
\* A check of the whole success range: networkResponse.ok.
ShouldCacheAnyOk(resp) == resp.status \in 200..299

\* if (networkResponse.status === 200)
ShouldCache(resp) == resp.status = 200

\* A cacheFirst that goes to the network without looking at the lookup's
\* answer.
CfMatchIgnoringCache(h) ==
    /\ handler[h].pc = "cf_match"
    /\ handler' = [handler EXCEPT ![h] =
                     [@ EXCEPT !.pc = "cf_fetch", !.lookups = @ + 1,
                               !.fetches = @ + 1]]
    /\ UNCHANGED <<worker, install, activate, cacheNames, content, hist, others>>

\* const cachedResponse = await caches.match(request);
\* if (cachedResponse) return cachedResponse;  otherwise fetch(request)
CfMatch(h) ==
    /\ handler[h].pc = "cf_match"
    /\ LET r == CachesMatch(cacheNames, content, handler[h].req.path) IN
       IF r # NoResponse
       THEN Set(h, [handler[h] EXCEPT !.pc = "done", !.lookups = @ + 1,
                                      !.hit = TRUE, !.result = r])
       ELSE Set(h, [handler[h] EXCEPT !.pc = "cf_fetch", !.lookups = @ + 1,
                                      !.fetches = @ + 1])
    /\ UNCHANGED <<worker, install, activate, cacheNames, content, hist, others>>

\* const networkResponse = await fetch(request): a status-200 response goes
\* on to caches.open, any other response is returned, a rejection is caught
\* and answered with the synthetic 503.
CfFetch(h) ==
    /\ handler[h].pc = "cf_fetch"
    /\ \/ \E s \in Statuses, b \in Bodies :
             LET r == NetResponse(handler[h].req.path, s, b) IN
             IF ShouldCache(r)
             THEN Set(h, [handler[h] EXCEPT !.pc = "cf_open", !.net = "ok",
                                            !.netResp = r])
             ELSE Set(h, [handler[h] EXCEPT !.pc = "done", !.net = "ok",
                                            !.netResp = r, !.result = r])
       \/ Set(h, [handler[h] EXCEPT !.pc = "done", !.net = "fail",
                                    !.result = Synthetic503])
    /\ UNCHANGED <<worker, install, activate, cacheNames, content, hist, others>>

\* const cache = await caches.open(STATIC_CACHE);
\* cache.put(request, networkResponse.clone());   (started, not awaited)
\* return networkResponse;
CfOpen(h) ==
    /\ handler[h].pc = "cf_open"
    /\ cacheNames' = OpenCache(cacheNames, STATIC_CACHE)
    /\ Set(h, [handler[h] EXCEPT
                 !.pc = "done",
                 !.put = [cache |-> STATIC_CACHE, key |-> handler[h].req.path,
                          resp |-> handler[h].netResp],
                 !.result = handler[h].netResp])
    /\ UNCHANGED <<worker, install, activate, content, hist, others>>

(***************************************************************************)
(* networkFirst                                                            *)
(***************************************************************************)
\* const networkResponse = await fetch(request)
NfFetch(h) ==
    /\ handler[h].pc = "nf_fetch"
    /\ \/ \E s \in Statuses, b \in Bodies :
             LET r == NetResponse(handler[h].req.path, s, b) IN
             IF ShouldCache(r)
             THEN Set(h, [handler[h] EXCEPT !.pc = "nf_open", !.net = "ok",
                                            !.netResp = r])
             ELSE Set(h, [handler[h] EXCEPT !.pc = "done", !.net = "ok",
                                            !.netResp = r, !.result = r])
       \/ Set(h, [handler[h] EXCEPT !.pc = "nf_catch", !.net = "fail"])
    /\ UNCHANGED <<worker, install, activate, cacheNames, content, hist, others>>

\* const cache = await caches.open(DYNAMIC_CACHE);
\* limitCacheSize(DYNAMIC_CACHE, MAX_DYNAMIC_CACHE_SIZE);   (not awaited: it
\*     runs to its first await, caches.open)
\* cache.put(request, networkResponse.clone());              (not awaited)
\* return networkResponse;
NfOpen(h) ==
    /\ handler[h].pc = "nf_open"
    /\ cacheNames' = OpenCache(cacheNames, DYNAMIC_CACHE)
    /\ Set(h, [handler[h] EXCEPT
                 !.pc = "done",
                 !.evict = [pc |-> "open", cache |-> DYNAMIC_CACHE,
                            size |-> MAX_DYNAMIC_CACHE_SIZE, toDelete |-> {},
                            error |-> FALSE],
                 !.put = [cache |-> DYNAMIC_CACHE, key |-> handler[h].req.path,
                          resp |-> handler[h].netResp],
                 !.result = handler[h].netResp])
    /\ tracked' = (tracked /\ Len(writes) < MaxLog)
    /\ writes' = IF tracked' THEN Append(writes, handler[h].req.path) ELSE <<>>
    /\ lastWrite' = IF \A g \in Handlers \ {h} : Quiet(g)
                    THEN handler[h].req.path ELSE <<>>
    /\ UNCHANGED <<worker, install, activate, content, others>>

\* const cache = await caches.open(DYNAMIC_CACHE) rejects: the await is
\* inside the try block, so control is in the catch block with the network
\* response in hand; no eviction pass and no put are started.
NfOpenFail(h) ==
    /\ handler[h].pc = "nf_open"
    /\ Set(h, [handler[h] EXCEPT !.pc = "nf_catch"])
    /\ UNCHANGED <<worker, install, activate, cacheNames, content, hist, others>>

\* A catch block that returns the lookup's answer as it is.
NfCatchWithoutFallback(h) ==
    /\ handler[h].pc = "nf_catch"
    /\ LET r == CachesMatch(cacheNames, content, handler[h].req.path) IN
       handler' = [handler EXCEPT ![h] =
                     [@ EXCEPT !.pc = "done", !.lookups = @ + 1,
                               !.hit = (r # NoResponse), !.result = r]]
    /\ UNCHANGED <<worker, install, activate, cacheNames, content, hist, others>>

\* catch (error): const cachedResponse = await caches.match(request);
\* the cached response if there is one, otherwise the synthetic 503.
NfCatch(h) ==
    /\ handler[h].pc = "nf_catch"
    /\ LET r == CachesMatch(cacheNames, content, handler[h].req.path) IN
       Set(h, [handler[h] EXCEPT
                 !.pc = "done", !.lookups = @ + 1,
                 !.hit = (r # NoResponse),
                 !.result = IF r # NoResponse THEN r ELSE Synthetic503])
    /\ UNCHANGED <<worker, install, activate, cacheNames, content, hist, others>>

\* A cache.put started by cacheFirst or networkFirst completes.
PutDone(h) ==
    /\ handler[h].put # NoPut
    /\ content' = [content EXCEPT ![handler[h].put.cache] =
                      PutEntry(@, handler[h].put.key, handler[h].put.resp)]
    /\ Set(h, [handler[h] EXCEPT !.put = NoPut])
    /\ UNCHANGED <<worker, install, activate, cacheNames, hist, others>>

(***************************************************************************)
(* limitCacheSize                                                          *)
(***************************************************************************)
\* keys.slice(0, keys.length - size)
KeysToDelete(keys, size) == SubSeq(keys, 1, Len(keys) - size)

\* const cache = await caches.open(cacheName)
EvictOpen(h) ==
    /\ handler[h].evict.pc = "open"
    /\ cacheNames' = OpenCache(cacheNames, handler[h].evict.cache)
    /\ Set(h, [handler[h] EXCEPT !.evict.pc = "keys"])
    /\ UNCHANGED <<worker, install, activate, content, hist, others>>

\* const keys = await cache.keys(); if (keys.length > size) the deletions
\* of keys.slice(0, keys.length - size) are started
EvictKeys(h) ==
    /\ handler[h].evict.pc = "keys"
    /\ LET keys == KeysOf(content[handler[h].evict.cache])
           size == handler[h].evict.size IN
       IF Len(keys) > size
       THEN Set(h, [handler[h] EXCEPT
                      !.evict.pc = "delete",
                      !.evict.toDelete = Range(KeysToDelete(keys, size))])
       ELSE Set(h, [handler[h] EXCEPT !.evict = NoEvict])
    /\ UNCHANGED <<worker, install, activate, cacheNames, content, hist, others>>

\* The state of limitCacheSize after one of its deletions has settled:
\* after the last one the function is finished, or in its catch block
\* when one of them was rejected.
AfterDelete(evict, k) ==
    IF evict.toDelete # {k} THEN [evict EXCEPT !.toDelete = @ \ {k}]
    ELSE IF evict.error THEN [evict EXCEPT !.pc = "caught", !.toDelete = {}]
    ELSE NoEvict

\* One cache.delete(key) of the Promise.all completes.
EvictDelete(h) ==
    /\ handler[h].evict.pc = "delete"
    /\ \E k \in handler[h].evict.toDelete :
          /\ content' = [content EXCEPT ![handler[h].evict.cache] =
                            DeleteEntry(@, k)]
          /\ Set(h, [handler[h] EXCEPT !.evict = AfterDelete(@, k)])
    /\ UNCHANGED <<worker, install, activate, cacheNames, hist, others>>

\* A limitCacheSize whose rejection reaches the request that started it:
\* the response of the invocation becomes the offline answer.
EvictFailPropagating(h) ==
    /\ handler[h].evict.pc \in {"open", "keys", "delete"}
    /\ Set(h, [handler[h] EXCEPT
                 !.evict = [@ EXCEPT !.pc = "caught", !.toDelete = {},
                                     !.error = TRUE],
                 !.result = Synthetic503])
    /\ UNCHANGED <<worker, install, activate, cacheNames, content, hist, others>>

\* An awaited operation of the try block raises: caches.open or
\* cache.keys rejects, and control is in the catch block; or one
\* cache.delete rejects, which rejects the Promise.all while the other
\* deletions that were started go on.  Nothing is deleted by the
\* operation that failed.
EvictFail(h) ==
    /\ handler[h].evict.pc \in {"open", "keys", "delete"}
    /\ IF handler[h].evict.pc = "delete"
       THEN \E k \in handler[h].evict.toDelete :
               Set(h, [handler[h] EXCEPT
                         !.evict = AfterDelete([@ EXCEPT !.error = TRUE], k)])
       ELSE Set(h, [handler[h] EXCEPT
                      !.evict = [@ EXCEPT !.pc = "caught", !.error = TRUE]])
    /\ UNCHANGED <<worker, install, activate, cacheNames, content, hist, others>>

\* catch (error) { console.error('Error limiting cache size:', error); }
\* limitCacheSize resolves.
EvictCatch(h) ==
    /\ handler[h].evict.pc = "caught"
    /\ Set(h, [handler[h] EXCEPT !.evict = NoEvict])
    /\ UNCHANGED <<worker, install, activate, cacheNames, content, hist, others>>

\* The invocation and everything it started are over; its slot serves the
\* next event.
Reset(h) ==
    /\ handler[h].pc = "done"
    /\ Quiet(h)
    /\ handler' = [g \in Handlers |->
                     IF g = h THEN IdleHandler
                     ELSE [handler[g] EXCEPT !.during = @ \ {h}]]
    /\ UNCHANGED <<worker, install, activate, cacheNames, content, hist, others>>

(***************************************************************************)
(* The push and notificationclick listeners, and the windows of the        *)
(* origin, which the user opens and closes.                                *)
(***************************************************************************)
\* self.registration.showNotification('Podologie Weimar', options)
Push ==
    /\ worker = "activated"
    /\ ~notif.shown
    /\ notif.pc = "idle"
    /\ notif' = [NoNotification EXCEPT !.shown = TRUE]
    /\ UNCHANGED <<workerVars, windows, pageVars>>

\* The user opens the site in a window, or closes a window.
WindowOpen ==
    /\ \E w \in WindowIds, p \in WindowPaths :
          /\ windows[w] = NoWindow
          /\ windows' = [windows EXCEPT ![w] = p]
    /\ UNCHANGED <<workerVars, notif, pageVars>>

WindowClose ==
    /\ \E w \in WindowIds :
          /\ windows[w] # NoWindow
          /\ windows' = [windows EXCEPT ![w] = NoWindow]
    /\ UNCHANGED <<workerVars, notif, pageVars>>

\* notificationclick: event.notification.close(), then
\* clients.matchAll({ type: 'window', includeUncontrolled: true }) is started.
NotificationClick ==
    /\ worker = "activated"
    /\ notif.shown
    /\ notif.pc = "idle"
    /\ notif' = [notif EXCEPT !.shown = FALSE, !.closed = TRUE,
                              !.pc = "matchAll"]
    /\ UNCHANGED <<workerVars, windows, pageVars>>

\* client.url of a window client: the absolute URL of the page it shows.
ClientUrl(w) == FullUrl(OWN_ORIGIN, windows[w])

\* if (client.url === '/' && 'focus' in client)
IsRootClient(w) == ClientUrl(w) = ROOT

\* .then((clientList) => { ... }): the first client that passes the test is
\* focused; when there is none, clients.openWindow('/') opens a new window.
NotificationMatched ==
    /\ notif.pc = "matchAll"
    /\ LET clientList == {w \in WindowIds : windows[w] # NoWindow}
           matching == {w \in clientList : IsRootClient(w)} IN
       IF matching # {}
       THEN /\ \E w \in matching :
                  notif' = [notif EXCEPT !.pc = "done", !.focused = w]
            /\ windows' = windows
       ELSE \E w \in WindowIds :
               /\ windows[w] = NoWindow
               /\ windows' = [windows EXCEPT ![w] = ROOT]
               /\ notif' = [notif EXCEPT !.pc = "done", !.opened = {w}]
    /\ UNCHANGED <<workerVars, pageVars>>

\* The promise given to event.waitUntil has settled.
NotificationSettled ==
    /\ notif.pc = "done"
    /\ notif' = NoNotification
    /\ UNCHANGED <<workerVars, windows, pageVars>>

NextNotification ==
    \/ InstallOpen
    \/ InstallAddAll
    \/ InstallSkipWaiting
    \/ InstallCatch
    \/ InstallSettled
    \/ ActivateKeys
    \/ ActivateDelete
    \/ ActivateClaim
    \/ ActivateSettled
    \/ Push
    \/ WindowOpen
    \/ WindowClose
    \/ NotificationClick
    \/ NotificationMatched
    \/ NotificationSettled

(***************************************************************************)
(* The specification.                                                      *)
(***************************************************************************)
Next ==
    \/ InstallOpen
    \/ InstallAddAll
    \/ InstallSkipWaiting
    \/ InstallCatch
    \/ InstallSettled
    \/ ActivateKeys
    \/ ActivateDelete
    \/ ActivateClaim
    \/ ActivateSettled
    \/ \E h \in SequentialHandlers :
          \/ Fetch(h)
          \/ NavMatch(h)
          \/ NavFetch(h)
          \/ NavCatch(h)
          \/ CfMatch(h)
          \/ CfFetch(h)
          \/ CfOpen(h)
          \/ NfFetch(h)
          \/ NfOpen(h)
          \/ NfCatch(h)
          \/ PutDone(h)
          \/ EvictOpen(h)
          \/ EvictKeys(h)
          \/ EvictDelete(h)
          \/ Reset(h)

Spec == Init /\ [][Next]_vars

(***************************************************************************)
(* The worker with a cache storage whose operations can fail: the awaited  *)
(* operations of limitCacheSize, and the caches.open that networkFirst     *)
(* awaits.                                                                 *)
(***************************************************************************)
NextStorageFailure ==
    \/ Next
    \/ \E h \in SequentialHandlers :
          \/ NfOpenFail(h)
          \/ EvictFail(h)
          \/ EvictCatch(h)

SpecStorageFailure == Init /\ [][NextStorageFailure]_vars

(***************************************************************************)
(* Two invocations of the listener in flight at the same time, for the     *)
(* requests that networkFirst serves.  A fetch event takes the first slot  *)
(* when it is free and the second one otherwise.                           *)
(***************************************************************************)
ConcurrentRequests ==
    {[path |-> p, mode |-> "no-cors", origin |-> OWN_ORIGIN] :
        p \in DynamicPaths}

FetchConcurrent(h) ==
    /\ h = "h2" => handler["h1"].pc # "idle"
    /\ FetchOf(h, ConcurrentRequests)

NextConcurrent ==
    \/ InstallOpen
    \/ InstallAddAll
    \/ InstallSkipWaiting
    \/ InstallCatch
    \/ InstallSettled
    \/ ActivateKeys
    \/ ActivateDelete
    \/ ActivateClaim
    \/ ActivateSettled
    \/ \E h \in Handlers :
          \/ FetchConcurrent(h)
          \/ NfFetch(h)
          \/ NfOpen(h)
          \/ NfCatch(h)
          \/ PutDone(h)
          \/ EvictOpen(h)
          \/ EvictKeys(h)
          \/ EvictDelete(h)
          \/ Reset(h)

SpecConcurrent == Init /\ [][NextConcurrent]_vars

(***************************************************************************)
(* The listener's classification alone, over a wide set of URLs: the       *)
(* worker is installed and activated, and each fetch event is followed up  *)
(* to the branch the listener chose for it.                                *)
(***************************************************************************)
DispatchRequests ==
    {[path |-> p, mode |-> m, origin |-> o] :
        p \in DispatchPaths, m \in {"navigate", "no-cors"},
        o \in {OWN_ORIGIN, OTHER_ORIGIN}}

FetchDispatch(h) == FetchOf(h, DispatchRequests)

NextDispatch ==
    \/ InstallOpen
    \/ InstallAddAll
    \/ InstallSkipWaiting
    \/ InstallCatch
    \/ InstallSettled
    \/ ActivateKeys
    \/ ActivateDelete
    \/ ActivateClaim
    \/ ActivateSettled
    \/ \E h \in SequentialHandlers : FetchDispatch(h)

SpecDispatch == Init /\ [][NextDispatch]_vars

SpecNotification == Init /\ [][NextNotification]_vars

(***************************************************************************)
(* The page script, multi-carousel version: class UnifiedCarousel and      *)
(* class PodologieApp.  The page has the carousel containers Carousels;    *)
(* a carousel's timers are the intervals setInterval has started for it    *)
(* that no clearInterval has stopped, whether or not the carousel still    *)
(* holds their handle.                                                     *)
(***************************************************************************)

\* The handle setInterval returns: the least one not in use.
FreshTimer(car) ==
    CHOOSE t \in 1..(MaxTimers + 1) :
        /\ t \notin car.timers
        /\ \A u \in 1..(t - 1) : u \in car.timers

\* No carousel has more timers than the bound allows.
TimersBounded(cs) == \A c \in Carousels : cs[c].timers \subseteq 1..MaxTimers

\* showSlide(index) for an integer index: out of range it returns early;
\* otherwise every slide and dot loses the active class, slide index gets
\* it, and dot index gets it if there is one.  active and activeDots are
\* the indexes of the slides and dots that carry the active class.
ShowSlideKeepingActive(car, index) ==
    IF index < 0 \/ index >= car.n
    THEN car
    ELSE [car EXCEPT !.active = @ \cup {index},
                     !.activeDots = @ \cup ({index} \cap 0..(car.dots - 1)),
                     !.currentSlideIndex = index]

ShowSlide(car, index) ==
    IF index < 0 \/ index >= car.n
    THEN car
    ELSE [car EXCEPT !.active = {index},
                     !.activeDots = {index} \cap 0..(car.dots - 1),
                     !.currentSlideIndex = index]

\* showSlide(NaN): neither comparison of the guard is true, so the active
\* classes are removed from every slide and dot; slides[NaN].classList
\* then throws inside the try block, before anything is assigned.
ShowSlideNaN(car) == [car EXCEPT !.active = {}, !.activeDots = {}]

\* nextSlide(): with no slides the remainder by zero is NaN.
NextSlide(car) ==
    IF car.n = 0
    THEN ShowSlideNaN(car)
    ELSE ShowSlide(car, (car.currentSlideIndex + 1) % car.n)

PrevSlideWithoutWrap(car) ==
    IF car.n = 0
    THEN ShowSlideNaN(car)
    ELSE ShowSlide(car, car.currentSlideIndex - 1)

PrevSlide(car) ==
    IF car.n = 0
    THEN ShowSlideNaN(car)
    ELSE ShowSlide(car, (car.currentSlideIndex - 1 + car.n) % car.n)

\* startAutoSlide(): the new handle overwrites the field; a timer the
\* field named before keeps running.
StartAutoSlide(car) ==
    IF car.isReducedMotion \/ car.n <= 1
    THEN car
    ELSE LET t == FreshTimer(car) IN
         [car EXCEPT !.autoSlideInterval = t, !.timers = @ \cup {t}]

PauseAutoSlide(car) ==
    IF car.autoSlideInterval # NoTimer
    THEN [car EXCEPT !.timers = @ \ {car.autoSlideInterval},
                     !.autoSlideInterval = NoTimer]
    ELSE car

ResumeAutoSlide(car) ==
    IF ~car.isReducedMotion /\ car.n > 1
    THEN StartAutoSlide(car)
    ELSE car

ResetAutoSlide(car) == ResumeAutoSlide(PauseAutoSlide(car))

GoToSlide(car, index) == ResetAutoSlide(ShowSlide(car, index))

\* What a carousel shows: its index and the slides and dots that carry
\* the active class.
SlideState(car) == <<car.currentSlideIndex, car.active, car.activeDots>>

\* k calls of nextSlide().
RECURSIVE NextSlideTimes(_, _)
NextSlideTimes(car, k) ==
    IF k = 0 THEN car ELSE NextSlideTimes(NextSlide(car), k - 1)

\* A container's markup: how many slides and dots it holds, and which dots
\* carry the active class in the markup.
Layout(n, d, marked) == [dots |-> d, marked |-> marked, slides |-> n]

\* The markups with as many dots as slides and no dot marked.
EvenLayouts(counts) == {Layout(n, n, {}) : n \in counts}

\* The markups whose dots are one fewer than, as many as, or one more than
\* the slides, with no dot or the first dot marked.
SlideLayouts ==
    {l \in [dots : 0..(MaxSlides + 1), marked : {{}, {0}},
            slides : 0..MaxSlides] :
        /\ l.dots \in {l.slides - 1, l.slides, l.slides + 1}
        /\ l.marked \subseteq 0..(l.dots - 1)
        /\ l.slides > 0 => l.marked = {0} \cap 0..(l.dots - 1)}

\* new UnifiedCarousel(selector) on a container with the given markup, at
\* a time when the media query reads reduce.
NewCarousel(layout, reduce) ==
    LET constructed == [NoCarousel EXCEPT !.n = layout.slides,
                                          !.dots = layout.dots,
                                          !.activeDots = layout.marked,
                                          !.isReducedMotion = reduce]
        initialised == IF layout.slides = 0
                       THEN constructed
                       ELSE ShowSlide([constructed EXCEPT !.listening = TRUE], 0)
    IN  StartAutoSlide(initialised)

\* handleReducedMotion(): with the preference set, every carousel is
\* paused.  The change listener it adds at every call is a copy of the
\* first and has the same effect.
HandleReducedMotion(reduce, cs) ==
    IF reduce
    THEN [c \in Carousels |-> PauseAutoSlide(cs[c])]
    ELSE cs

\* DOMContentLoaded: new PodologieApp() and its init(), on a document
\* whose carousels have one of the markups in layouts and whose modal
\* holds the first k of ModalElements, k in sizes, and whose navigation is
\* one of navs.
PageLoadOf(layouts, sizes, navs) ==
    /\ ~env.loaded
    /\ tabs' \in navs
    /\ \E reduce \in BOOLEAN, ns \in layouts, k \in sizes :
          /\ env' = [env EXCEPT !.loaded = TRUE, !.reduce = reduce]
          /\ app' = [app EXCEPT !.isReducedMotion = reduce, !.keydown = TRUE]
          /\ carousel' = HandleReducedMotion(reduce,
                            [c \in Carousels |-> NewCarousel(ns[c], reduce)])
          /\ modal' = [modal EXCEPT !.elements = SubSeq(ModalElements, 1, k)]
    /\ event' = [type |-> "load", target |-> "document"]
    /\ UNCHANGED <<workerVars, notifVars, single, focus>>

PageLoad ==
    PageLoadOf([Carousels -> EvenLayouts(0..MaxSlides)], {Len(ModalElements)},
               {NoTabs})

\* The pointer enters the container of carousel c.
MouseEnter(c) ==
    /\ env.loaded
    /\ env.pointer = "none"
    /\ env' = [env EXCEPT !.pointer = c]
    /\ carousel' = [carousel EXCEPT ![c] =
                       IF @.listening THEN PauseAutoSlide(@) ELSE @]
    /\ event' = [type |-> "mouseenter", target |-> c]
    /\ UNCHANGED <<workerVars, notifVars, tabs, single, app, modal, focus>>

\* The pointer leaves the container of carousel c.
MouseLeave(c) ==
    /\ env.loaded
    /\ env.pointer = c
    /\ env' = [env EXCEPT !.pointer = "none"]
    /\ carousel' = [carousel EXCEPT ![c] =
                       IF @.listening THEN ResumeAutoSlide(@) ELSE @]
    /\ TimersBounded(carousel')
    /\ event' = [type |-> "mouseleave", target |-> c]
    /\ UNCHANGED <<workerVars, notifVars, tabs, single, app, modal, focus>>

\* visibilitychange: the tab is hidden or shown again.
VisibilityChange ==
    /\ env.loaded
    /\ env' = [env EXCEPT !.hidden = ~@]
    /\ carousel' = [c \in Carousels |->
                       IF env'.hidden
                       THEN PauseAutoSlide(carousel[c])
                       ELSE ResumeAutoSlide(carousel[c])]
    /\ TimersBounded(carousel')
    /\ event' = [type |-> "visibilitychange", target |-> "document"]
    /\ UNCHANGED <<workerVars, notifVars, tabs, single, app, modal, focus>>

\* A click on the dot of slide index of carousel c.
DotClick(c, index) ==
    /\ env.loaded
    /\ ~env.hidden
    /\ carousel[c].listening
    /\ index \in 0..(carousel[c].dots - 1)
    /\ carousel' = [carousel EXCEPT ![c] = GoToSlide(@, index)]
    /\ TimersBounded(carousel')
    /\ event' = [type |-> "dotclick", target |-> c]
    /\ UNCHANGED <<workerVars, notifVars, tabs, single, env, app, modal, focus>>

\* A click on the next or the previous button of carousel c.
NavClick(c, forward) ==
    /\ env.loaded
    /\ ~env.hidden
    /\ carousel[c].listening
    /\ carousel' = [carousel EXCEPT ![c] =
                       IF forward THEN NextSlide(@) ELSE PrevSlide(@)]
    /\ event' = [type |-> "navclick", target |-> c]
    /\ UNCHANGED <<workerVars, notifVars, tabs, single, env, app, modal, focus>>

\* The user changes the reduced-motion preference: the media query's
\* change listener sets the app's field and calls handleReducedMotion.
MotionChange ==
    /\ env.loaded
    /\ env' = [env EXCEPT !.reduce = ~@]
    /\ app' = [app EXCEPT !.isReducedMotion = env'.reduce]
    /\ carousel' = HandleReducedMotion(env'.reduce, carousel)
    /\ event' = [type |-> "change", target |-> "media"]
    /\ UNCHANGED <<workerVars, notifVars, tabs, single, modal, focus>>

\* An interval timer of carousel c fires: nextSlide().
Tick(c) ==
    /\ env.loaded
    /\ carousel[c].timers # {}
    /\ carousel' = [carousel EXCEPT ![c] = NextSlide(@)]
    /\ event' = [type |-> "tick", target |-> c]
    /\ UNCHANGED <<workerVars, notifVars, tabs, single, env, app, modal, focus>>

NextCarousel ==
    \/ PageLoad
    \/ \E c \in Carousels : MouseEnter(c)
    \/ \E c \in Carousels : MouseLeave(c)
    \/ VisibilityChange
    \/ \E c \in Carousels : \E index \in 0..(MaxSlides - 1) : DotClick(c, index)
    \/ \E c \in Carousels : \E forward \in BOOLEAN : NavClick(c, forward)
    \/ MotionChange
    \/ \E c \in Carousels : Tick(c)

SpecCarousel == Init /\ [][NextCarousel]_vars

(***************************************************************************)
(* The impressum modal and the keyboard: openModal, closeModal, trapFocus  *)
(* and handleKeyDown.  The modal is an overlay: while it is shown, the     *)
(* pointer and the keyboard reach only the modal.                          *)
(***************************************************************************)

\* The modal is shown.
Shown == modal.active /\ modal.display = "flex"

FirstFocusable == modal.elements[1]

LastFocusable == modal.elements[Len(modal.elements)]

\* One keydown listener of trapFocus handling Tab (shift or not); st is the
\* element that has focus and whether preventDefault has been called.
TrapListenerWithoutWrap(st, shift) == st

TrapListener(st, shift) ==
    IF shift
    THEN IF st.focus = FirstFocusable
         THEN [focus |-> LastFocusable, prevented |-> TRUE]
         ELSE st
    ELSE IF st.focus = LastFocusable
         THEN [focus |-> FirstFocusable, prevented |-> TRUE]
         ELSE st

\* The n listeners that n calls of trapFocus have added, run in order.
RECURSIVE RunTraps(_, _, _)
RunTraps(n, st, shift) ==
    IF n = 0 THEN st ELSE RunTraps(n - 1, TrapListener(st, shift), shift)

\* The browser's own handling of Tab from element f of the modal: the next
\* or the previous focusable element, which past the last or before the
\* first lies outside the modal.
DefaultTab(f, shift) ==
    LET i == CHOOSE j \in 1..Len(modal.elements) : modal.elements[j] = f
        k == IF shift THEN i - 1 ELSE i + 1
    IN  IF k \in 1..Len(modal.elements) THEN modal.elements[k] ELSE "body"

\* The element that has focus once closeModal has called
\* previousFocus.focus(): no call for null, and no effect on the body.
RestoredFocusKept(prev, cur) == cur

RestoredFocus(prev, cur) ==
    IF prev \notin {"null", "body"} THEN prev ELSE cur

\* An element of the modal loses focus to the body when the modal is hidden.
AfterHiding(f) == IF f \in Range(ModalElements) THEN "body" ELSE f

\* openModal(modal), called while element f has focus.
OpenModal(f) ==
    /\ app' = [app EXCEPT !.previousFocus = f]
    /\ modal' = [modal EXCEPT !.active = TRUE, !.display = "flex",
                              !.overflow = "hidden", !.traps = @ + 1]
    /\ focus' = IF modal.elements # <<>> THEN FirstFocusable ELSE f

CloseModalKeepingOverflow ==
    /\ modal' = [modal EXCEPT !.active = FALSE, !.display = "none"]
    /\ focus' = AfterHiding(RestoredFocus(app.previousFocus, focus))
    /\ app' = [app EXCEPT !.previousFocus = "null", !.keydown = FALSE]

\* closeModal(modal): its last statement removes the document's keydown
\* listener, the one initEventListeners has added.
CloseModal ==
    /\ modal' = [modal EXCEPT !.active = FALSE, !.display = "none",
                              !.overflow = ""]
    /\ focus' = AfterHiding(RestoredFocus(app.previousFocus, focus))
    /\ app' = [app EXCEPT !.previousFocus = "null", !.keydown = FALSE]

\* A click on the impressum link, or Enter on it: a pointer click moves
\* focus to the link in some browsers and leaves it in others.
LinkClick ==
    /\ env.loaded
    /\ ~Shown
    /\ modal.traps < MaxOpens
    /\ \E f \in {focus, "impressum-link"} : OpenModal(f)
    /\ event' = [type |-> "click", target |-> "impressum-link"]
    /\ UNCHANGED <<workerVars, notifVars, tabs, single, env, carousel>>

\* A click on the modal's close button.
CloseButtonClick ==
    /\ env.loaded
    /\ Shown
    /\ CloseModal
    /\ event' = [type |-> "click", target |-> "modal-close"]
    /\ UNCHANGED <<workerVars, notifVars, tabs, single, env, carousel>>

\* A click on the modal's overlay: e.target === impressumModal.
OverlayClick ==
    /\ env.loaded
    /\ Shown
    /\ CloseModal
    /\ event' = [type |-> "click", target |-> "impressum-modal"]
    /\ UNCHANGED <<workerVars, notifVars, tabs, single, env, carousel>>

\* Escape is pressed: handleKeyDown, if it is still registered, closes the
\* modal that has class modal--active.
KeyEscape ==
    /\ env.loaded
    /\ IF app.keydown /\ modal.active
       THEN CloseModal
       ELSE UNCHANGED <<app, modal, focus>>
    /\ event' = [type |-> "keydown:Escape", target |-> focus]
    /\ UNCHANGED <<workerVars, notifVars, tabs, single, env, carousel>>

\* Tab or Shift+Tab is pressed on an element of the shown modal: the trap
\* listeners run, then the browser moves focus unless one prevented it.
KeyTab(shift) ==
    /\ env.loaded
    /\ Shown
    /\ focus \in Range(modal.elements)
    /\ LET st == RunTraps(modal.traps, [focus |-> focus, prevented |-> FALSE],
                          shift)
       IN  focus' = IF st.prevented THEN st.focus ELSE DefaultTab(st.focus, shift)
    /\ event' = [type |-> IF shift THEN "keydown:Shift+Tab" ELSE "keydown:Tab",
                 target |-> focus]
    /\ UNCHANGED <<workerVars, notifVars, tabs, single, env, app, carousel, modal>>

\* ArrowRight (forward) or ArrowLeft is pressed: handleKeyDown, if it is
\* still registered, moves the carousel whose container holds the target.
KeyArrow(forward) ==
    /\ env.loaded
    /\ carousel' = IF app.keydown /\ focus \in Carousels
                   THEN [carousel EXCEPT ![focus] =
                            IF forward THEN NextSlide(@) ELSE PrevSlide(@)]
                   ELSE carousel
    /\ event' = [type |-> IF forward THEN "keydown:ArrowRight"
                                     ELSE "keydown:ArrowLeft",
                 target |-> focus]
    /\ UNCHANGED <<workerVars, notifVars, tabs, single, env, app, modal, focus>>

\* The user moves focus to element el of the page, by pointer or keyboard.
FocusMove(el) ==
    /\ env.loaded
    /\ ~Shown
    /\ el # focus
    /\ focus' = el
    /\ event' = [type |-> "focus", target |-> el]
    /\ UNCHANGED <<workerVars, notifVars, tabs, single, env, app, carousel, modal>>

PageLoadModal ==
    PageLoadOf([Carousels -> EvenLayouts({0, MaxSlides})],
               1..Len(ModalElements), {NoTabs})

NextModal ==
    \/ PageLoadModal
    \/ LinkClick
    \/ CloseButtonClick
    \/ OverlayClick
    \/ KeyEscape
    \/ \E shift \in BOOLEAN : KeyTab(shift)
    \/ \E forward \in BOOLEAN : KeyArrow(forward)
    \/ \E el \in PageElements : FocusMove(el)

SpecModal == Init /\ [][NextModal]_vars

(***************************************************************************)
(* Slide navigation on containers whose dots need not match their slides:  *)
(* the buttons, the dots, the arrow keys and the interval timers.          *)
(***************************************************************************)

PageLoadSlides ==
    PageLoadOf([Carousels -> SlideLayouts], {Len(ModalElements)}, {NoTabs})

NextSlides ==
    \/ PageLoadSlides
    \/ \E c \in Carousels : \E index \in 0..MaxSlides : DotClick(c, index)
    \/ \E c \in Carousels : \E forward \in BOOLEAN : NavClick(c, forward)
    \/ \E forward \in BOOLEAN : KeyArrow(forward)
    \/ \E el \in PageElements : FocusMove(el)
    \/ \E c \in Carousels : Tick(c)

SpecSlides == Init /\ [][NextSlides]_vars

(***************************************************************************)
(* The single-carousel version of the page script: PodologieApp holds the  *)
(* carousel itself, over every slide and dot of the document, and the      *)
(* markup's inline handlers call the global nextSlide, prevSlide and       *)
(* currentSlide.                                                           *)
(***************************************************************************)

\* showSlide(index): the guard lets NaN through; every slide and dot is
\* toggled to whether its position equals index, and index is stored.
SingleShowSlide(s, index) ==
    IF index # NaN /\ (index < 0 \/ index >= s.n)
    THEN s
    ELSE [s EXCEPT !.active = {i \in 0..(s.n - 1) : i = index},
                   !.activeDots = {i \in 0..(s.dots - 1) : i = index},
                   !.currentSlideIndex = index]

\* (currentSlideIndex + step) % slides.length: NaN for no slides, and for
\* an index that is NaN already.
SingleIndex(s, step) ==
    IF s.n = 0 \/ s.currentSlideIndex = NaN
    THEN NaN
    ELSE (s.currentSlideIndex + step + s.n) % s.n

\* startAutoSlide(), with the app's isReducedMotion.
SingleStartAutoSlide(s, reduce) ==
    IF reduce
    THEN s
    ELSE LET t == FreshTimer(s) IN
         [s EXCEPT !.autoSlideInterval = t, !.timers = @ \cup {t}]

\* resetAutoSlide(): with reduced motion the cleared handle stays in the
\* field.
SingleResetAutoSlide(s, reduce) ==
    IF s.autoSlideInterval # NoTimer
    THEN SingleStartAutoSlide(
             [s EXCEPT !.timers = @ \ {s.autoSlideInterval}], reduce)
    ELSE s

\* k calls of nextSlide() in the single-carousel version.
RECURSIVE SingleNextSlideTimes(_, _, _)
SingleNextSlideTimes(s, k, reduce) ==
    IF k = 0
    THEN s
    ELSE SingleNextSlideTimes(
             SingleResetAutoSlide(SingleShowSlide(s, SingleIndex(s, 1)), reduce),
             k - 1, reduce)

SingleNextSlide(s, reduce) ==
    SingleResetAutoSlide(SingleShowSlide(s, SingleIndex(s, 1)), reduce)

SinglePrevSlide(s, reduce) ==
    SingleResetAutoSlide(SingleShowSlide(s, SingleIndex(s, 0 - 1)), reduce)

\* currentSlide(slideNumber), 1-indexed.
SingleCurrentSlide(s, slideNumber, reduce) ==
    IF slideNumber < 1 \/ slideNumber > s.n
    THEN s
    ELSE SingleResetAutoSlide(SingleShowSlide(s, slideNumber - 1), reduce)

\* initCarousel() on a document with the given markup.
SingleInitCarousel(layout, reduce) ==
    LET found == [NoSingle EXCEPT !.n = layout.slides, !.dots = layout.dots,
                                  !.activeDots = layout.marked]
    IN  IF layout.slides = 0
        THEN found
        ELSE SingleStartAutoSlide(SingleShowSlide(found, 0), reduce)

\* DOMContentLoaded in the single-carousel version.
SingleLoad ==
    /\ ~env.loaded
    /\ \E reduce \in BOOLEAN, layout \in SlideLayouts :
          /\ env' = [env EXCEPT !.loaded = TRUE, !.reduce = reduce]
          /\ app' = [app EXCEPT !.isReducedMotion = reduce, !.keydown = TRUE]
          /\ single' = SingleInitCarousel(layout, reduce)
    /\ event' = [type |-> "load", target |-> "document"]
    /\ UNCHANGED <<workerVars, notifVars, tabs, carousel, modal, focus>>

\* An inline handler calls the global nextSlide() or prevSlide().
SingleNavClick(forward) ==
    /\ env.loaded
    /\ single' = IF forward
                 THEN SingleNextSlide(single, app.isReducedMotion)
                 ELSE SinglePrevSlide(single, app.isReducedMotion)
    /\ event' = [type |-> IF forward THEN "nextSlide" ELSE "prevSlide",
                 target |-> "app"]
    /\ UNCHANGED <<workerVars, notifVars, tabs, env, app, carousel, modal, focus>>

\* An inline handler calls the global currentSlide(slideNumber).
SingleDotClick(slideNumber) ==
    /\ env.loaded
    /\ single' = SingleCurrentSlide(single, slideNumber, app.isReducedMotion)
    /\ event' = [type |-> "currentSlide", target |-> "app"]
    /\ UNCHANGED <<workerVars, notifVars, tabs, env, app, carousel, modal, focus>>

\* ArrowRight (forward) or ArrowLeft is pressed inside the carousel
\* container: handleKeyDown.
SingleKeyArrow(forward) ==
    /\ env.loaded
    /\ app.keydown
    /\ single' = IF forward
                 THEN SingleNextSlide(single, app.isReducedMotion)
                 ELSE SinglePrevSlide(single, app.isReducedMotion)
    /\ event' = [type |-> IF forward THEN "keydown:ArrowRight"
                                     ELSE "keydown:ArrowLeft",
                 target |-> "carousel-container"]
    /\ UNCHANGED <<workerVars, notifVars, tabs, env, app, carousel, modal, focus>>

\* The interval timer fires: nextSlide().
SingleTick ==
    /\ env.loaded
    /\ single.timers # {}
    /\ single' = SingleNextSlide(single, app.isReducedMotion)
    /\ event' = [type |-> "tick", target |-> "app"]
    /\ UNCHANGED <<workerVars, notifVars, tabs, env, app, carousel, modal, focus>>

NextSingle ==
    \/ SingleLoad
    \/ \E forward \in BOOLEAN : SingleNavClick(forward)
    \/ \E slideNumber \in 0..(MaxSlides + 1) : SingleDotClick(slideNumber)
    \/ \E forward \in BOOLEAN : SingleKeyArrow(forward)
    \/ SingleTick

SpecSingle == Init /\ [][NextSingle]_vars

(***************************************************************************)
(* The tabbed navigation: initTabNavigation, switchTab, handleTabKeyDown.  *)
(* An href is the sequence of its parts, "#" being one of them; an element *)
(* id is one part.                                                         *)
(***************************************************************************)

\* The href of navigation link i as the site writes it: the id of tab
\* content i after "#".
TabHref(i) == <<"#", TabIds[i]>>

\* The hrefs a document gives to one link in place of its own: a bare "#",
\* the id of an element that is no tab content, and none.
OddHrefs == {<<"#">>, <<"#", "main">>, NoHref}

\* Where the markup puts the active classes: on the first link and the
\* first tab content, on none, or on all of them.
Markups == {"first", "none", "all"}

\* The document with n links and m tab contents, every link with its own
\* href but the one at odd.at, if any, with odd.href.
TabDocument(n, m, controls, odd, markup) ==
    [n |-> n,
     hrefs |-> [i \in 1..n |-> IF i = odd.at THEN odd.href ELSE TabHref(i)],
     contents |-> {TabIds[j] : j \in 1..m},
     controls |-> controls,
     activeLinks |-> CASE markup = "first" -> {1}
                       [] markup = "none" -> {}
                       [] markup = "all" -> 1..n,
     activeContents |-> CASE markup = "first" -> {TabIds[1]}
                          [] markup = "none" -> {}
                          [] markup = "all" -> {TabIds[j] : j \in 1..m},
     mainActive |-> FALSE,
     switched |-> FALSE]

TabDocuments ==
    {TabDocument(n, m, controls, odd, markup) :
        n \in 1..MaxTabs, m \in 1..MaxTabs, controls \in BOOLEAN,
        odd \in [at : 0..MaxTabs, href : OddHrefs], markup \in Markups}

\* href.substring(1) on the parts, and the id getElementById is given.
TargetId(href) == Tail(href)

\* switchTab(navLinks[i], navLinks, tabContents): a link without href
\* makes substring throw after the classes are removed and the link is
\* active.
SwitchTabKeepingContents(t, i) ==
    LET cleared == [t EXCEPT !.activeLinks = {i}, !.switched = TRUE]
        id == TargetId(t.hrefs[i])
    IN  IF t.hrefs[i] = NoHref \/ id = <<>> THEN cleared
        ELSE IF id[1] \in t.contents
             THEN [cleared EXCEPT !.activeContents = @ \cup {id[1]}]
        ELSE IF id[1] = "main"
             THEN [cleared EXCEPT !.mainActive = TRUE]
        ELSE cleared

SwitchTab(t, i) ==
    LET cleared == [t EXCEPT !.activeLinks = {i}, !.activeContents = {},
                             !.switched = TRUE]
        id == TargetId(t.hrefs[i])
    IN  IF t.hrefs[i] = NoHref \/ id = <<>> THEN cleared
        ELSE IF id[1] \in t.contents
             THEN [cleared EXCEPT !.activeContents = {id[1]}]
        ELSE IF id[1] = "main"
             THEN [cleared EXCEPT !.mainActive = TRUE]
        ELSE cleared

\* The element that has focus after switchTab, f having it before: the
\* first focusable element of the target, named by the target's id, if the
\* target exists and begins with one.
FocusAfterSwitch(t, i, f) ==
    LET id == TargetId(t.hrefs[i]) IN
    IF t.hrefs[i] # NoHref /\ id # <<>> /\ id[1] \in t.contents \cup {"main"}
       /\ t.controls
    THEN id[1]
    ELSE f

\* The keys pressed on a navigation link.
TabKeys ==
    {"keydown:ArrowLeft", "keydown:ArrowRight", "keydown:Home", "keydown:End",
     "keydown:Enter", "keydown:x"}

\* handleTabKeyDown's newIndex for the link at position i of n, positions
\* counted from 1.
TabTargetWithoutWrap(i, key, n) ==
    CASE key = "keydown:ArrowLeft"  -> IF i > 1 THEN i - 1 ELSE i
      [] key = "keydown:ArrowRight" -> IF i < n THEN i + 1 ELSE i
      [] key = "keydown:Home"       -> 1
      [] key = "keydown:End"        -> n
      [] OTHER                      -> i

TabTarget(i, key, n) ==
    CASE key = "keydown:ArrowLeft"  -> IF i > 1 THEN i - 1 ELSE n
      [] key = "keydown:ArrowRight" -> IF i < n THEN i + 1 ELSE 1
      [] key = "keydown:Home"       -> 1
      [] key = "keydown:End"        -> n
      [] OTHER                      -> i

PageLoadTabs ==
    PageLoadOf([Carousels -> EvenLayouts({0})], {Len(ModalElements)},
               TabDocuments)

\* A click on navigation link i: a pointer click moves focus to the link
\* in some browsers and leaves it in others.
TabClick(i) ==
    /\ env.loaded
    /\ i \in 1..tabs.n
    /\ tabs' = SwitchTab(tabs, i)
    /\ \E f \in {focus, NavLinks[i]} : focus' = FocusAfterSwitch(tabs, i, f)
    /\ event' = [type |-> "click", target |-> NavLinks[i]]
    /\ UNCHANGED <<workerVars, notifVars, single, env, app, carousel, modal>>

\* A key is pressed on navigation link i: handleTabKeyDown; a handled key
\* focuses the new link and clicks it, which runs its click listener.
TabKeyDown(i, key) ==
    /\ env.loaded
    /\ i \in 1..tabs.n
    /\ focus = NavLinks[i]
    /\ IF key \in {"keydown:ArrowLeft", "keydown:ArrowRight", "keydown:Home",
                   "keydown:End"}
       THEN LET newIndex == TabTarget(i, key, tabs.n) IN
            /\ tabs' = SwitchTab(tabs, newIndex)
            /\ focus' = FocusAfterSwitch(tabs, newIndex, NavLinks[newIndex])
       ELSE UNCHANGED <<tabs, focus>>
    /\ event' = [type |-> key, target |-> NavLinks[i]]
    /\ UNCHANGED <<workerVars, notifVars, single, env, app, carousel, modal>>

\* The user moves focus to navigation link i.
TabFocus(i) ==
    /\ env.loaded
    /\ i \in 1..tabs.n
    /\ focus # NavLinks[i]
    /\ focus' = NavLinks[i]
    /\ event' = [type |-> "focus", target |-> NavLinks[i]]
    /\ UNCHANGED <<workerVars, notifVars, tabs, single, env, app, carousel,
                   modal>>

NextTabs ==
    \/ PageLoadTabs
    \/ \E i \in 1..MaxTabs : TabClick(i)
    \/ \E i \in 1..MaxTabs : \E key \in TabKeys : TabKeyDown(i, key)
    \/ \E i \in 1..MaxTabs : TabFocus(i)

SpecTabs == Init /\ [][NextTabs]_vars

(***************************************************************************)
(* The same, with a cache storage that can reject a caches.delete of the   *)
(* activate step.                                                          *)
(***************************************************************************)
NextActivateFailure ==
    \/ NextDispatch
    \/ ActivateDeleteFail

SpecActivateFailure == Init /\ [][NextActivateFailure]_vars

(***************************************************************************)
(* Vocabulary of the properties.                                           *)
(***************************************************************************)
Done(h) == handler[h].pc = "done"

ByNavigate(h) == Dispatch(handler[h].req) = "nav_match"
ByCacheFirst(h) == Dispatch(handler[h].req) = "cf_match"
ByNetworkFirst(h) == Dispatch(handler[h].req) = "nf_fetch"

\* Nothing is running or pending in the worker.
AllQuiet == \A g \in Handlers : Quiet(g)

Distinct(s) == \A i, j \in 1..Len(s) : i # j => s[i] # s[j]

DynamicKeys == Range(KeysOf(content[DYNAMIC_CACHE]))

\* The response a cache holds for a key (NoResponse when it holds none).
Stored(n, k) ==
    IF HasKey(content[n], k) THEN content[n][Lookup(content[n], k)].resp
    ELSE NoResponse

(***************************************************************************)
(* C1: once a status-200 networkFirst write and the eviction pass it       *)
(* started have both finished, the DYNAMIC cache holds at most             *)
(* MAX_DYNAMIC_CACHE_SIZE entries.                                         *)
(***************************************************************************)
C1_DynamicWithinMax ==
    (/\ AllQuiet
     /\ \E h \in Handlers :
           Done(h) /\ ByNetworkFirst(h) /\ handler[h].netResp.status = 200)
    => Len(content[DYNAMIC_CACHE]) <= MAX_DYNAMIC_CACHE_SIZE

(***************************************************************************)
(* C2: after MAX+1 distinct dynamic keys were written one after another,   *)
(* each write and its eviction pass finishing before the next began, the   *)
(* DYNAMIC cache holds exactly the MAX keys written last, and the key      *)
(* written first is gone.                                                  *)
(***************************************************************************)
C2_OldestEvictedFirst ==
    (/\ AllQuiet
     /\ tracked
     /\ Len(writes) = MAX_DYNAMIC_CACHE_SIZE + 1
     /\ Distinct(writes))
    => /\ DynamicKeys = {writes[i] : i \in 2..Len(writes)}
       /\ writes[1] \notin DynamicKeys

(***************************************************************************)
(* C3: when a manifest URL cannot be fetched during install, the promise   *)
(* given to event.waitUntil rejects and the worker is not installed: it    *)
(* never goes on to activation.                                            *)
(***************************************************************************)
C3_InstallFailsWhenAssetMissing ==
    install.addAll = "failed"
    => /\ install.promise # "resolved"
       /\ worker \in {"installing", "redundant"}

(***************************************************************************)
(* C4: whenever the promise given to event.waitUntil by the install        *)
(* listener has resolved, every manifest URL is in the STATIC cache, and a *)
(* cacheFirst call for a manifest URL that has returned was answered from  *)
(* the cache without a network fetch.                                      *)
(***************************************************************************)
C4_ManifestCachedAfterInstall ==
    install.promise = "resolved"
    => /\ \A i \in 1..Len(STATIC_ASSETS) :
             HasKey(content[STATIC_CACHE], STATIC_ASSETS[i])
       /\ \A h \in Handlers :
             (/\ Done(h)
              /\ ByCacheFirst(h)
              /\ handler[h].req.path \in Range(STATIC_ASSETS))
             => /\ handler[h].fetches = 0
                /\ handler[h].result = Precached(handler[h].req.path)

(***************************************************************************)
(* C5: for every intercepted request the promise given to                  *)
(* event.respondWith resolves to a response object, never to an absent     *)
(* value.                                                                  *)
(***************************************************************************)
C5_AlwaysAResponse ==
    \A h \in Handlers :
        (Done(h) /\ handler[h].responded) => handler[h].result # NoResponse

(***************************************************************************)
(* C6: a navigation request is answered by the cached entry for '/' when   *)
(* there is one, with no network fetch; otherwise by the network response  *)
(* for the requested URL; and when that fetch raises, by a second lookup   *)
(* of '/'.  When install cached '/', a navigation to any path is answered  *)
(* by the cached root document, never by a 503.                            *)
(***************************************************************************)
C6_NavigationOrder ==
    \A h \in Handlers :
        (Done(h) /\ ByNavigate(h)) =>
        LET n == handler[h]
            root == CachesMatch(cacheNames, content, ROOT) IN
        /\ \/ /\ n.hit
              /\ n.lookups = 1 /\ n.fetches = 0 /\ n.net = "none"
              /\ root # NoResponse /\ n.result = root
           \/ /\ ~n.hit /\ n.net = "ok"
              /\ n.lookups = 1 /\ n.fetches = 1
              /\ n.result = n.netResp
              /\ n.result.kind = "net" /\ n.result.url = n.req.path
           \/ /\ ~n.hit /\ n.net = "fail"
              /\ n.lookups = 2 /\ n.fetches = 1
              /\ n.result = root
        /\ install.addAll = "ok" =>
              /\ n.result = Precached(ROOT)
              /\ n.fetches = 0

\* A navigation to a path that was never cached is answered by the root
\* document that install cached.
C6_Witness ==
    \E h \in Handlers :
        /\ Done(h) /\ ByNavigate(h)
        /\ handler[h].req.path = <<"/", "about">>
        /\ install.addAll = "ok"
        /\ handler[h].result = Precached(ROOT)

(***************************************************************************)
(* C7: a cacheFirst call whose request has a matching entry in some cache  *)
(* when it looks the request up returns that entry and issues no network   *)
(* fetch.                                                                  *)
(***************************************************************************)
C7_CacheFirstHit ==
    [][\A h \in Handlers :
         (/\ handler[h].pc = "cf_match"
          /\ handler'[h] # handler[h]
          /\ CachesMatch(cacheNames, content, handler[h].req.path) # NoResponse)
         => /\ handler'[h].pc = "done"
            /\ handler'[h].result =
                   CachesMatch(cacheNames, content, handler[h].req.path)
            /\ handler'[h].fetches = 0
            /\ handler'[h].net = "none"]_vars

\* cacheFirst has answered from an entry that an earlier cacheFirst stored.
C7_Witness ==
    \E h \in Handlers :
        /\ Done(h) /\ ByCacheFirst(h)
        /\ handler[h].hit
        /\ handler[h].fetches = 0
        /\ handler[h].result.kind = "net"
        /\ handler[h].result = Stored(STATIC_CACHE, handler[h].req.path)

(***************************************************************************)
(* C8: when the network fetch rejects and no cache holds a matching entry, *)
(* cacheFirst and networkFirst both resolve to the synthetic 503 response. *)
(***************************************************************************)
C8_Synthetic503 ==
    [][\A h \in Handlers :
         \* cacheFirst: the lookup missed, the fetch rejects
         /\ (/\ handler[h].pc = "cf_fetch"
             /\ handler'[h].net = "fail")
            => /\ handler'[h].pc = "done"
               /\ handler'[h].result = Synthetic503
         \* networkFirst: the fetch rejects, and the rejection is caught
         /\ (/\ handler[h].pc = "nf_fetch"
             /\ handler'[h].net = "fail")
            => handler'[h].pc = "nf_catch"
         \* networkFirst: the lookup of the catch block finds nothing
         /\ (/\ handler[h].pc = "nf_catch"
             /\ handler'[h] # handler[h]
             /\ CachesMatch(cacheNames, content, handler[h].req.path) = NoResponse)
            => /\ handler'[h].pc = "done"
               /\ handler'[h].result = Synthetic503]_vars

\* networkFirst has answered a failed fetch of an uncached URL.
C8_Witness ==
    \E h \in Handlers :
        /\ Done(h) /\ ByNetworkFirst(h)
        /\ handler[h].net = "fail"
        /\ handler[h].lookups = 1
        /\ CachesMatch(cacheNames, content, handler[h].req.path) = NoResponse
        /\ handler[h].result = Synthetic503

(***************************************************************************)
(* C9 as stated: a cacheFirst call that missed the cache and got a network *)
(* response with a status in the success range has, when it returns, a     *)
(* copy of that response in the STATIC cache.                              *)
(***************************************************************************)
C9_StoredBeforeReturn ==
    \A h \in Handlers :
        (/\ Done(h) /\ ByCacheFirst(h)
         /\ ~handler[h].hit
         /\ handler[h].net = "ok"
         /\ handler[h].netResp.status \in 200..299)
        => Stored(STATIC_CACHE, handler[h].req.path) = handler[h].netResp

(***************************************************************************)
(* C9 as amended: a cacheFirst call that missed the cache and got a        *)
(* network response of status exactly 200 starts, before it returns, a     *)
(* cache.put of a copy into the STATIC cache and does not wait for it: the *)
(* write is still pending when the response is returned, and the copy is   *)
(* in the STATIC cache once the write completes.  A response of any other  *)
(* status, the other success-range statuses included, is returned without  *)
(* a write being started.                                                  *)
(***************************************************************************)
C9_PutStartedFor200 ==
    [][\A h \in Handlers :
         LET n == handler[h]
             m == handler'[h] IN
         \* the fetch after the miss resolves
         /\ (n.pc = "cf_fetch" /\ m.net = "ok")
            => IF m.netResp.status = 200
               THEN m.pc = "cf_open"
               ELSE /\ m.pc = "done"
                    /\ m.result = m.netResp
                    /\ m.put = NoPut
                    /\ content' = content
         \* the return: the put is started, the cache is as it was
         /\ (n.pc = "cf_open" /\ m # n)
            => /\ n.netResp.status = 200
               /\ m.pc = "done"
               /\ m.result = n.netResp
               /\ m.put = [cache |-> STATIC_CACHE, key |-> n.req.path,
                           resp |-> n.netResp]
               /\ content' = content
         \* the put completes
         /\ (ByCacheFirst(h) /\ n.put # NoPut /\ m.put = NoPut)
            => LET c == content'[STATIC_CACHE] IN
               /\ HasKey(c, n.req.path)
               /\ c[Lookup(c, n.req.path)].resp = n.netResp]_vars

\* cacheFirst has returned a status-200 network response after a miss, and
\* the cache.put it started has completed since: the copy is in the STATIC
\* cache.
C9_Witness ==
    \E h \in Handlers :
        /\ Done(h) /\ ByCacheFirst(h)
        /\ ~handler[h].hit
        /\ handler[h].netResp.status = 200
        /\ handler[h].result = handler[h].netResp
        /\ handler[h].put = NoPut
        /\ Stored(STATIC_CACHE, handler[h].req.path) = handler[h].netResp

(***************************************************************************)
(* C10: after networkFirst returned a status-200 response for a dynamic    *)
(* URL and the write it started is over, a following networkFirst call for *)
(* the same URL whose fetch fails returns the persisted response, not a    *)
(* 503.                                                                    *)
(***************************************************************************)
C10_PersistedServedOffline ==
    \A h \in Handlers :
        (/\ Done(h) /\ ByNetworkFirst(h)
         /\ handler[h].net = "fail"
         /\ lastWrite = handler[h].req.path)
        => /\ handler[h].result # Synthetic503
           /\ handler[h].result = Stored(DYNAMIC_CACHE, handler[h].req.path)

(***************************************************************************)
(* C11: once the activate step has completed, no cache exists whose name   *)
(* differs from both STATIC_CACHE and DYNAMIC_CACHE; and the activate step *)
(* keeps every current-version cache that exists, with its entries as they *)
(* were.                                                                   *)
(***************************************************************************)
C11_ActivationPurgesStale ==
    /\ [](activate.pc = "done" =>
            \A n \in Range(cacheNames) : n \in {STATIC_CACHE, DYNAMIC_CACHE})
    /\ [][worker = "activating" =>
            \A n \in {STATIC_CACHE, DYNAMIC_CACHE} :
                /\ n \in Range(cacheNames) => n \in Range(cacheNames')
                /\ content'[n] = content[n]]_vars

\* The activate step has completed: it listed the cache of an earlier
\* deployment and the STATIC cache that install filled; the first is gone
\* and the second holds the manifest.
C11_Witness ==
    /\ activate.pc = "done"
    /\ OLD_CACHE \in activate.listed
    /\ STATIC_CACHE \in activate.listed
    /\ OLD_CACHE \notin Range(cacheNames)
    /\ STATIC_CACHE \in Range(cacheNames)
    /\ content[STATIC_CACHE] = AddAll(<<>>, STATIC_ASSETS, 1)

(***************************************************************************)
(* C12: in every state after activation has completed, exactly one STATIC  *)
(* cache and exactly one DYNAMIC cache exist in the cache store.           *)
(***************************************************************************)
CountKind(names, kind) ==
    Cardinality({i \in 1..Len(names) : KindOf(names[i]) = kind})

C12_ExactlyOnePerKind ==
    worker = "activated" =>
        /\ CountKind(cacheNames, "static") = 1
        /\ CountKind(cacheNames, "dynamic") = 1

\* C12 as the code has it: after activation exactly one STATIC cache exists
\* and at most one DYNAMIC cache; the DYNAMIC cache is created by the first
\* networkFirst invocation that opens it for a status-200 response and
\* exists from then on.
C12_OneStaticAtMostOneDynamic ==
    worker = "activated" =>
        /\ CountKind(cacheNames, "static") = 1
        /\ STATIC_CACHE \in Range(cacheNames)
        /\ CountKind(cacheNames, "dynamic") <= 1
        /\ DYNAMIC_CACHE \in Range(cacheNames) <=> lastWrite # <<>>

\* Both kinds exist: an earlier deployment's cache was purged and a
\* networkFirst invocation has created the DYNAMIC cache.
C12_Witness ==
    /\ worker = "activated"
    /\ cacheNames = <<STATIC_CACHE, DYNAMIC_CACHE>>
    /\ \E h \in Handlers : Done(h) /\ ByNetworkFirst(h)

(***************************************************************************)
(* C13: a request whose origin differs from the worker's origin is never   *)
(* intercepted: the listener does not call respondWith for it, issues no   *)
(* fetch of its own, and neither reads nor writes any cache.               *)
(***************************************************************************)
CrossOrigin(h) ==
    /\ handler[h].req # NoRequest
    /\ handler[h].req.origin # OWN_ORIGIN

C13_CrossOriginUntouched ==
    /\ [](\A h \in Handlers :
            CrossOrigin(h) =>
                /\ handler[h].pc = "done"
                /\ ~handler[h].responded
                /\ handler[h].fetches = 0
                /\ handler[h].lookups = 0
                /\ handler[h].result = NoResponse
                /\ handler[h].put = NoPut
                /\ handler[h].evict = NoEvict)
    /\ [][\A h \in Handlers :
            (~CrossOrigin(h) /\ CrossOrigin(h)') =>
                /\ cacheNames' = cacheNames
                /\ content' = content]_vars

\* The listener has returned for a cross-origin request while the caches
\* hold entries it could have read.
C13_Witness ==
    \E h \in Handlers :
        /\ CrossOrigin(h)
        /\ handler[h].pc = "done"
        /\ content[STATIC_CACHE] # <<>>

(***************************************************************************)
(* C14: every same-origin non-navigation request is dispatched to exactly  *)
(* one strategy: to cacheFirst if and only if its URL is a manifest URL,   *)
(* or lies under the images path, or carries one of the static extensions; *)
(* to networkFirst in every other case.                                    *)
(***************************************************************************)
\* The three classes of the claim, each read as widely as the code reads
\* it except the first: a manifest URL is a member of the manifest.
ManifestUrl(path) == \E i \in 1..Len(STATIC_ASSETS) : path = STATIC_ASSETS[i]
UnderImages(path) == Includes(path, <<"/", "images", "/">>)
StaticExtension(path) == \E e \in StaticExtensions : EndsWith(path, <<e>>)

C14_DispatchByClass ==
    \A h \in Handlers :
        (/\ handler[h].req # NoRequest
         /\ handler[h].req.origin = OWN_ORIGIN
         /\ handler[h].req.mode # "navigate") =>
            LET p == handler[h].req.path
                static == ManifestUrl(p) \/ UnderImages(p) \/ StaticExtension(p)
            IN  /\ handler[h].pc \in {"cf_match", "nf_fetch"}
                /\ handler[h].pc = "cf_match" <=> static

(***************************************************************************)
(* C15: in networkFirst the eviction pass for a write runs after that      *)
(* write: the key listing taken by limitCacheSize includes the entry just  *)
(* written, and entries are deleted from the front of the insertion order  *)
(* until the count equals the maximum.                                     *)
(***************************************************************************)
C15_EvictionListsTheWrite ==
    [][\A h \in Handlers :
        (handler[h].evict.pc = "keys" /\ handler'[h].evict.pc # "keys") =>
            /\ handler[h].put = NoPut
            /\ HasKey(content[DYNAMIC_CACHE], handler[h].req.path)
            /\ handler'[h].evict.toDelete =
                  Range(KeysToDelete(KeysOf(content[DYNAMIC_CACHE]),
                                     MAX_DYNAMIC_CACHE_SIZE))]_vars

(***************************************************************************)
(* C16: networkFirst returns a cached entry only when its network fetch    *)
(* raised an error: whenever the network returns any HTTP response, that   *)
(* response is what the caller receives regardless of cache contents, and  *)
(* a response whose status is not 200 is never written into a cache and    *)
(* leaves an existing entry for the same key unchanged.                    *)
(***************************************************************************)
NetworkAnswered(h) == ByNetworkFirst(h) /\ handler[h].net = "ok"

C16_NetworkResponseWins ==
    /\ [](\A h \in Handlers :
            ByNetworkFirst(h) =>
                /\ handler[h].lookups > 0 => handler[h].net = "fail"
                /\ (NetworkAnswered(h) /\ Done(h)) =>
                        /\ handler[h].result = handler[h].netResp
                        /\ ~handler[h].hit
                /\ (NetworkAnswered(h) /\ handler[h].netResp.status # 200) =>
                        /\ Done(h)
                        /\ handler[h].put = NoPut
                        /\ handler[h].evict = NoEvict)
    /\ [][\A h \in Handlers :
            (/\ NetworkAnswered(h)' /\ handler'[h].netResp.status # 200
             /\ \A g \in Handlers \ {h} : Quiet(g)) =>
                /\ cacheNames' = cacheNames
                /\ content' = content]_vars

(***************************************************************************)
(* C17: a failure inside the eviction pass (opening the cache, listing     *)
(* keys or deleting an entry raises) never fails the triggering request:   *)
(* networkFirst still returns the network response, and the only effect is *)
(* a DYNAMIC cache that may stay over its maximum.                         *)
(***************************************************************************)
OnlyEvictChanges(h) ==
    /\ handler'[h] = [handler[h] EXCEPT !.evict = handler'[h].evict]
    /\ cacheNames' = cacheNames
    /\ content' = content

C17_EvictionFailureIsNotFatal ==
    /\ [](\A h \in Handlers :
            handler[h].evict.error =>
                /\ ByNetworkFirst(h) /\ Done(h)
                /\ handler[h].responded
                /\ handler[h].net = "ok"
                /\ handler[h].result = handler[h].netResp
                /\ handler[h].lookups = 0)
    /\ [][\A h \in Handlers :
            /\ (~handler[h].evict.error /\ handler'[h].evict.error) =>
                    OnlyEvictChanges(h)
            /\ (handler[h].evict.pc = "caught" /\ handler'[h].evict.pc # "caught") =>
                    (OnlyEvictChanges(h) /\ handler'[h].evict = NoEvict)]_vars

\* The deletion of the eviction pass was rejected and the pass is in its
\* catch block: the write is in the cache, the DYNAMIC cache is over its
\* maximum, and the caller has the network response.
C17_Witness ==
    \E h \in Handlers :
        /\ handler[h].evict.pc = "caught"
        /\ handler[h].put = NoPut
        /\ Len(content[DYNAMIC_CACHE]) > MAX_DYNAMIC_CACHE_SIZE
        /\ handler[h].result = handler[h].netResp
        /\ handler[h].netResp.status = 200

(***************************************************************************)
(* C18: when two invocations of the listener for the same dynamic request  *)
(* overlap, in any interleaving of their suspension points, the DYNAMIC    *)
(* cache ends with exactly one entry for that key, and its value is the    *)
(* response of the write that was applied last.                            *)
(***************************************************************************)
EntriesFor(entries, k) == {i \in 1..Len(entries) : entries[i].key = k}

\* The present invocations of g and h were in flight at the same time.
Overlapped(g, h) == g \in handler[h].during \/ h \in handler[g].during

\* Both invocations wrote a status-200 response for the same URL.
BothWrote(g, h) ==
    /\ g # h
    /\ Overlapped(g, h)
    /\ ByNetworkFirst(g) /\ ByNetworkFirst(h)
    /\ handler[g].req.path = handler[h].req.path
    /\ Done(g) /\ Done(h)
    /\ handler[g].net = "ok" /\ handler[h].net = "ok"
    /\ ShouldCache(handler[g].netResp) /\ ShouldCache(handler[h].netResp)

C18_LastWriteWins ==
    /\ [](\A g, h \in Handlers :
            (BothWrote(g, h) /\ AllQuiet) =>
                LET k == handler[h].req.path IN
                /\ Cardinality(EntriesFor(content[DYNAMIC_CACHE], k)) = 1
                /\ content[DYNAMIC_CACHE][Lookup(content[DYNAMIC_CACHE], k)].resp
                      \in {handler[g].netResp, handler[h].netResp})
    /\ [][\A h \in Handlers :
            (handler[h].put # NoPut /\ handler'[h].put = NoPut) =>
                LET k == handler[h].put.key
                    after == content'[handler[h].put.cache] IN
                /\ Cardinality(EntriesFor(after, k)) = 1
                /\ after[Lookup(after, k)].resp = handler[h].put.resp]_vars

(***************************************************************************)
(* C19: the offline fallback of networkFirst (cache lookup, then 503) is   *)
(* entered only after the network fetch has rejected; while the fetch is   *)
(* pending and never settles the handler produces no response at all, so   *)
(* a response is eventually delivered only under the assumption that every *)
(* fetch eventually settles.                                               *)
(***************************************************************************)
C19_FallbackOnlyAfterRejection ==
    \A h \in Handlers :
        ByNetworkFirst(h) =>
            /\ handler[h].pc = "nf_catch" =>
                    /\ handler[h].net = "fail"
                    /\ handler[h].netResp = NoResponse
            /\ handler[h].pc = "nf_fetch" =>
                    /\ handler[h].net = "none"
                    /\ handler[h].result = NoResponse
                    /\ handler[h].lookups = 0

(***************************************************************************)
(* C20: during install, skipWaiting is invoked only after all manifest     *)
(* assets have been written to the STATIC cache; when caching the manifest *)
(* fails, skipWaiting is never invoked.                                    *)
(***************************************************************************)
ManifestWritten ==
    \A i \in 1..Len(STATIC_ASSETS) :
        /\ HasKey(content[STATIC_CACHE], STATIC_ASSETS[i])
        /\ content[STATIC_CACHE][Lookup(content[STATIC_CACHE],
                                        STATIC_ASSETS[i])].resp
              = Precached(STATIC_ASSETS[i])

C20_SkipWaitingAfterManifest ==
    /\ [](install.skipWaiting => install.addAll = "ok")
    /\ [](install.addAll = "failed" => ~install.skipWaiting)
    /\ [][(~install.skipWaiting /\ install'.skipWaiting) =>
            /\ worker = "installing"
            /\ install.addAll = "ok"
            /\ STATIC_CACHE \in Range(cacheNames)
            /\ ManifestWritten]_vars

\* skipWaiting has been invoked during install, with the manifest in the
\* STATIC cache.
C20_Witness ==
    /\ worker = "installing"
    /\ install.skipWaiting
    /\ ManifestWritten

(***************************************************************************)
(* C21: during activate, clients.claim is invoked only after every         *)
(* deletion of a stale cache has completed; if any deletion fails,         *)
(* clients.claim is not invoked.                                           *)
(***************************************************************************)
C21_ClaimAfterDeletions ==
    /\ [][(~activate.claimed /\ activate'.claimed) =>
            /\ worker = "activating"
            /\ activate.toDelete = {}
            /\ \A n \in StaleCaches(activate.listed) : n \notin Range(cacheNames)]_vars
    /\ [](activate.pc = "rejected" => ~activate.claimed)
    /\ [][activate.pc = "rejected" => activate'.pc = "rejected"]_vars

\* clients.claim has been invoked by an activate step that listed two
\* stale caches and deleted both.
C21_Witness ==
    /\ activate.claimed
    /\ activate.listed = {OLD_CACHE, OLD_DYNAMIC_CACHE, STATIC_CACHE}
    /\ cacheNames = <<STATIC_CACHE>>

\* A deletion was rejected: a stale cache is left and the worker is active
\* without having claimed its clients.
C21_WitnessRejected ==
    /\ worker = "activated"
    /\ activate.pc = "rejected"
    /\ OLD_CACHE \in Range(cacheNames)

(***************************************************************************)
(* C22: a second successful networkFirst write for a key already present   *)
(* in the DYNAMIC cache replaces the stored value with the newer response  *)
(* and leaves the number of entries unchanged.                             *)
(***************************************************************************)
\* h is the only invocation at work, its put is pending and the key is in
\* the DYNAMIC cache: the entry is that of an earlier write.
Rewriting(h) ==
    /\ ByNetworkFirst(h)
    /\ handler[h].put # NoPut
    /\ HasKey(content[DYNAMIC_CACHE], handler[h].put.key)
    /\ \A g \in Handlers \ {h} : Quiet(g)

C22_RewriteKeepsCount ==
    [][\A h \in Handlers :
        Rewriting(h) =>
            LET k == handler[h].put.key
                after == content'[DYNAMIC_CACHE] IN
            /\ Len(after) = Len(content[DYNAMIC_CACHE])
            /\ Cardinality(EntriesFor(after, k)) = 1
            /\ handler'[h].put = NoPut =>
                    after[Lookup(after, k)].resp = handler[h].netResp]_vars

(***************************************************************************)
(* C26: on a notification click the notification is closed and then        *)
(* exactly one of two things happens: an already open window client        *)
(* showing the root page is focused, or, only when no such client exists,  *)
(* one new window is opened at '/'.                                        *)
(***************************************************************************)
C26_FocusOrOpen ==
    [][(notif.pc = "matchAll" /\ notif'.pc = "done") =>
        LET roots == {w \in WindowIds : windows[w] = ROOT} IN
        /\ notif.closed /\ ~notif.shown
        /\ IF roots # {}
           THEN /\ notif'.focused \in roots
                /\ notif'.opened = {}
                /\ windows' = windows
           ELSE /\ notif'.focused = "none"
                /\ Cardinality(notif'.opened) = 1
                /\ \A w \in notif'.opened :
                      /\ windows[w] = NoWindow
                      /\ windows' = [windows EXCEPT ![w] = ROOT]]_vars

\* C23: whenever the user's reduced-motion preference is 'reduce', at page
\* load or after a change at runtime, no carousel has an active auto-slide
\* timer, whatever mouse, visibility, dot and preference events came before.
C23_ReducedMotionNoTimer ==
    (env.loaded /\ env.reduce) => \A c \in Carousels : carousel[c].timers = {}

\* C29: each carousel has at most one active interval timer, its
\* autoSlideInterval is non-null exactly when a timer is active, and every
\* active timer is the one the field names.
C29_OneTimerWithHandle ==
    \A c \in Carousels :
        /\ Cardinality(carousel[c].timers) <= 1
        /\ carousel[c].autoSlideInterval # NoTimer <=> carousel[c].timers # {}
        /\ carousel[c].timers \subseteq {carousel[c].autoSlideInterval}

\* C30: while the pointer is over a carousel or the document is hidden, no
\* interval timer of that carousel fires nextSlide.
C30_NoTickWhilePaused ==
    [][\A c \in Carousels :
          (event' = [type |-> "tick", target |-> c] /\ carousel' # carousel)
              => (env.pointer # c /\ ~env.hidden)]_vars


\* C24: while the modal is shown, Tab on its last focusable element moves
\* focus to its first and Shift+Tab on its first moves focus to its last,
\* and no Tab moves focus out of the modal, at every opening of the modal.
C24_FocusTrapped ==
    [][(Shown /\ focus \in Range(modal.elements)
          /\ event'.type \in {"keydown:Tab", "keydown:Shift+Tab"}) =>
            /\ focus' \in Range(modal.elements)
            /\ (event'.type = "keydown:Tab" /\ focus = LastFocusable)
                  => focus' = FirstFocusable
            /\ (event'.type = "keydown:Shift+Tab" /\ focus = FirstFocusable)
                  => focus' = LastFocusable]_vars

\* C24 happens: at the second opening, with two trap listeners on a modal
\* of three focusable elements, Tab on the last has moved focus to the first.
C24_Witness ==
    /\ Shown
    /\ modal.traps = 2
    /\ Len(modal.elements) = Len(ModalElements)
    /\ event = [type |-> "keydown:Tab", target |-> LastFocusable]
    /\ focus = FirstFocusable

\* C25: opening the modal stores the element that has focus, the stored
\* reference does not change while the modal is shown, and closing the
\* modal, by close button, overlay click or Escape, gives focus back to
\* that element and clears the stored reference.
C25_FocusRestored ==
    [][/\ (~Shown /\ Shown') =>
             /\ app'.previousFocus \in {focus, event'.target}
             /\ app'.previousFocus \in PageElements
       /\ (Shown /\ Shown') => app'.previousFocus = app.previousFocus
       /\ (Shown /\ ~Shown') =>
             /\ focus' = app.previousFocus
             /\ app'.previousFocus = "null"]_vars

\* C25 happens: the modal was opened from a carousel control, focus moved
\* inside it, and Escape has closed it and given focus back.
C25_Witness ==
    /\ ~Shown
    /\ modal.display = "none"
    /\ event = [type |-> "keydown:Escape", target |-> "modal-anchor"]
    /\ focus = "c1"
    /\ app.previousFocus = "null"

\* C27: the document's keydown handler stays registered for the lifetime of
\* the page: Escape closes the shown modal, and an arrow key pressed inside
\* a carousel container moves that carousel by one slide, also after modal
\* open/close cycles.
C27_KeysKeepWorking ==
    /\ [](env.loaded => app.keydown)
    /\ [][/\ (Shown /\ event'.type = "keydown:Escape") => ~Shown'
          /\ \A c \in Carousels :
                (focus = c /\ event'.type = "keydown:ArrowRight")
                    => carousel'[c] = NextSlide(carousel[c])
          /\ \A c \in Carousels :
                (focus = c /\ event'.type = "keydown:ArrowLeft")
                    => carousel'[c] = PrevSlide(carousel[c])]_vars

\* C28: document.body's overflow is 'hidden' exactly when the modal is
\* shown (class modal--active and display 'flex').
C28_ScrollLockIffShown ==
    modal.overflow = "hidden" <=> (modal.active /\ modal.display = "flex")

\* C28 happens: the modal has been opened and closed twice and scrolling is
\* free again.
C28_Witness ==
    /\ modal.traps = 2
    /\ modal.display = "none"
    /\ ~modal.active
    /\ modal.overflow = ""

\* C31: a carousel with at least one slide has its currentSlideIndex in
\* [0, n), exactly one active slide, slides[currentSlideIndex], and at most
\* one active dot, dots[currentSlideIndex], after any sequence of button
\* and dot clicks, arrow keys and timer ticks.
C31_OneActiveSlide ==
    \A c \in Carousels :
        (env.loaded /\ carousel[c].n >= 1) =>
            /\ carousel[c].currentSlideIndex \in 0..(carousel[c].n - 1)
            /\ carousel[c].active = {carousel[c].currentSlideIndex}
            /\ carousel[c].activeDots \subseteq {carousel[c].currentSlideIndex}
            /\ carousel[c].currentSlideIndex < carousel[c].dots
                  => carousel[c].activeDots = {carousel[c].currentSlideIndex}

\* C31 happens: a timer tick has wrapped a carousel of MaxSlides slides and
\* one dot more from its last slide to slide 0.
C31_Witness ==
    /\ event = [type |-> "tick", target |-> "c1"]
    /\ carousel["c1"].n = MaxSlides
    /\ carousel["c1"].dots = MaxSlides + 1
    /\ carousel["c1"].currentSlideIndex = 0
    /\ carousel["c1"].active = {0}

\* C31 in the single-carousel version: with at least one slide the index
\* is in range, the one active slide is the slide at the index, and the
\* active dot, if any, is the dot at the index.
C31_SingleOneActiveSlide ==
    (env.loaded /\ single.n >= 1) =>
        /\ single.currentSlideIndex \in 0..(single.n - 1)
        /\ single.active = {single.currentSlideIndex}
        /\ single.activeDots = {single.currentSlideIndex} \cap 0..(single.dots - 1)

\* C32: on a carousel with slides, nextSlide on the last slide shows slide
\* 0, prevSlide on slide 0 shows the last slide, nextSlide then prevSlide
\* and prevSlide then nextSlide show the starting slide again, and so do n
\* nextSlide calls on n slides; every button click is one such call.
C32_WrapAndInverse ==
    /\ [](\A c \in Carousels :
            LET car == carousel[c] IN
            (env.loaded /\ car.n >= 1) =>
                /\ car.currentSlideIndex = car.n - 1
                      => SlideState(NextSlide(car))
                           = SlideState(ShowSlide(car, 0))
                /\ car.currentSlideIndex = 0
                      => SlideState(PrevSlide(car))
                           = SlideState(ShowSlide(car, car.n - 1))
                /\ SlideState(PrevSlide(NextSlide(car))) = SlideState(car)
                /\ SlideState(NextSlide(PrevSlide(car))) = SlideState(car)
                /\ SlideState(NextSlideTimes(car, car.n)) = SlideState(car))
    /\ [][\A c \in Carousels :
            /\ event' = [type |-> "keydown:ArrowRight", target |-> c]
                  => carousel'[c] = NextSlide(carousel[c])
            /\ event' = [type |-> "keydown:ArrowLeft", target |-> c]
                  => carousel'[c] = PrevSlide(carousel[c])]_vars

\* C32 happens: ArrowLeft on slide 0 of a carousel of MaxSlides slides has
\* shown its last slide.
C32_Witness ==
    /\ event = [type |-> "keydown:ArrowLeft", target |-> "c2"]
    /\ carousel["c2"].n = MaxSlides
    /\ carousel["c2"].currentSlideIndex = MaxSlides - 1
    /\ carousel["c2"].active = {MaxSlides - 1}

\* C32 in the single-carousel version, where nextSlide and prevSlide also
\* restart the timer.
C32_SingleWrapAndInverse ==
    (env.loaded /\ single.n >= 1) =>
        LET r == app.isReducedMotion IN
        /\ single.currentSlideIndex = single.n - 1
              => SingleNextSlide(single, r).currentSlideIndex = 0
        /\ single.currentSlideIndex = 0
              => SinglePrevSlide(single, r).currentSlideIndex = single.n - 1
        /\ SlideState(SinglePrevSlide(SingleNextSlide(single, r), r))
              = SlideState(single)
        /\ SlideState(SingleNextSlide(SinglePrevSlide(single, r), r))
              = SlideState(single)
        /\ SlideState(SingleNextSlideTimes(single, single.n, r))
              = SlideState(single)

\* C33: the slide index never leaves its valid range: showSlide and
\* currentSlide with an index outside [0, n) change neither the index nor
\* any slide or dot, and nextSlide or prevSlide with zero slides leaves the
\* index at 0, never NaN, and changes no slide or dot.
C33_IndexStaysInRange ==
    /\ [](env.loaded =>
            /\ \A index \in ((0 - 1)..(MaxSlides + 1)) \ (0..(single.n - 1)) :
                  index # NaN =>
                      SlideState(SingleShowSlide(single, index))
                          = SlideState(single)
            /\ \A slideNumber \in (0..(MaxSlides + 1)) \ (1..single.n) :
                  SingleCurrentSlide(single, slideNumber, app.isReducedMotion)
                      = single)
    /\ [][(env.loaded /\ single.n = 0) =>
            /\ single'.currentSlideIndex = 0
            /\ SlideState(single') = SlideState(single)]_vars

\* C33 in the multi-carousel version: showSlide and goToSlide out of range,
\* and every step on a carousel with zero slides.
C33_MultiIndexStaysInRange ==
    /\ [](\A c \in Carousels :
            env.loaded =>
                \A index \in ((0 - 1)..(MaxSlides + 1))
                               \ (0..(carousel[c].n - 1)) :
                    /\ SlideState(ShowSlide(carousel[c], index))
                          = SlideState(carousel[c])
                    /\ SlideState(GoToSlide(carousel[c], index))
                          = SlideState(carousel[c]))
    /\ [][\A c \in Carousels :
            (env.loaded /\ carousel[c].n = 0) =>
                /\ carousel'[c].currentSlideIndex = 0
                /\ SlideState(carousel'[c]) = SlideState(carousel[c])]_vars

\* The fragment of an href: what follows its first "#".
Fragment(href) ==
    IF \E j \in 1..Len(href) : href[j] = "#"
    THEN LET k == CHOOSE j \in 1..Len(href) :
                      /\ href[j] = "#"
                      /\ \A l \in 1..(j - 1) : href[l] # "#"
         IN  SubSeq(href, k + 1, Len(href))
    ELSE <<>>

====
